---- MODULE Spec2Model ----
(***************************************************************************)
(* Model of the slide ingestion and persistence pipeline of app.js: the    *)
(* gallery state (imageEntries, imageSignatures), the IndexedDB store      *)
(* behind openDatabase / saveSlideRecord / getPersistedSlides /            *)
(* clearPersistedSlides, the ingestion batches of addFiles (images, PDF    *)
(* documents, saved packages), the startup restore, resetGallery, the      *)
(* export of buildExportPayload and the beforeunload handler.              *)
(*                                                                         *)
(* JavaScript runs one task at a time: an async function runs without      *)
(* interruption up to its next await.  Every action below is one such      *)
(* run-to-the-next-await block of one invocation, or one event of the      *)
(* environment (the store opening, a transaction finishing, the clock, a   *)
(* version change).  Where the model splits one such block in two (the top *)
(* of a loop, the return from an await that needed no task), no event is   *)
(* delivered in between: see Settled.                                      *)
(***************************************************************************)
EXTENDS Integers, Sequences, FiniteSets, TLC

(***************************************************************************)
(* Program constants                                                       *)
(***************************************************************************)
DEFAULT_DELAY == 200
SAVE_PACKAGE_VERSION == 1
MinDelay == 0
MaxDelay == 2000
Pad == 64

(***************************************************************************)
(* Bounds of the model                                                     *)
(***************************************************************************)
MaxResets == 1
MaxTicks == 1
MaxExports == 1

Slots == {1, 2}

(***************************************************************************)
(* JavaScript values read from a parsed package: a number, a string, or    *)
(* undefined (a missing property).                                         *)
(***************************************************************************)
Num(n) == [t |-> "num", n |-> n, s |-> ""]
\* The number n + 1/2.
NumHalf(n) == [t |-> "num", n |-> n, s |-> "half"]
Str(s) == [t |-> "str", n |-> 0, s |-> s]
Undef == [t |-> "undef", n |-> 0, s |-> ""]
NaN == -1

\* Number(value), for the values above; the strings used are "1" and
\* non-numeric ones.  NaN is modelled by -1 (no number of the model is negative).
ToNumber(v) ==
  IF v.t = "num" THEN v.n
  ELSE IF v.t = "str" THEN (IF v.s = "1" THEN 1 ELSE IF v.s = "" THEN 0 ELSE NaN)
  ELSE NaN

Min(a, b) == IF a < b THEN a ELSE b
Max(a, b) == IF a > b THEN a ELSE b

(***************************************************************************)
(* Base64: btoa / atob on byte sequences.  A text is a sequence of codes,  *)
(* 0..63 the alphabet, Pad the "=" sign; any other code is a character     *)
(* outside the alphabet.                                                   *)
(***************************************************************************)
RECURSIVE Btoa(_)
Btoa(b) ==
  IF Len(b) = 0 THEN <<>>
  ELSE IF Len(b) = 1 THEN <<b[1] \div 4, (b[1] % 4) * 16, Pad, Pad>>
  ELSE IF Len(b) = 2
    THEN <<b[1] \div 4, (b[1] % 4) * 16 + (b[2] \div 16), (b[2] % 16) * 4, Pad>>
  ELSE <<b[1] \div 4, (b[1] % 4) * 16 + (b[2] \div 16),
         (b[2] % 16) * 4 + (b[3] \div 64), b[3] % 64>>
       \o Btoa(SubSeq(b, 4, Len(b)))

\* An encoder that drops the bytes after the last full group of three.
arrayBufferToBase64Truncating(buffer) ==
  Btoa(SubSeq(buffer, 1, 3 * (Len(buffer) \div 3)))

arrayBufferToBase64(buffer) ==
  IF Len(buffer) = 0 THEN <<>> ELSE Btoa(buffer)

\* atob first drops one or two trailing "=" of a text whose length is a
\* multiple of 4.
StripPad(s) ==
  IF Len(s) > 0 /\ Len(s) % 4 = 0 /\ s[Len(s)] = Pad
    THEN IF s[Len(s) - 1] = Pad THEN SubSeq(s, 1, Len(s) - 2)
         ELSE SubSeq(s, 1, Len(s) - 1)
    ELSE s

\* atob throws InvalidCharacterError on a text it cannot decode.
AtobOk(s) ==
  LET d == StripPad(s)
  IN  /\ Len(d) % 4 # 1
      /\ \A i \in 1..Len(d) : d[i] \in 0..63

RECURSIVE AtobBytes(_)
AtobBytes(d) ==
  IF Len(d) < 2 THEN <<>>
  ELSE IF Len(d) = 2 THEN <<d[1] * 4 + (d[2] \div 16)>>
  ELSE IF Len(d) = 3
    THEN <<d[1] * 4 + (d[2] \div 16), (d[2] % 16) * 16 + (d[3] \div 4)>>
  ELSE <<d[1] * 4 + (d[2] \div 16), (d[2] % 16) * 16 + (d[3] \div 4),
         (d[3] % 4) * 64 + d[4]>>
       \o AtobBytes(SubSeq(d, 5, Len(d)))

base64ToArrayBuffer(base64) == AtobBytes(StripPad(base64))

(***************************************************************************)
(* Files handed to addFiles.  name = base \o ext, ext being the lower-case *)
(* suffix that addFiles tests; bytes is the content of an image file; doc  *)
(* and numPages are the content of a PDF; body is the parsed text of a     *)
(* package.  The saved package is the file written by the last export.     *)
(***************************************************************************)
NoBody == [json |-> FALSE, version |-> Undef, delay |-> Undef,
           isArray |-> FALSE, slides |-> <<>>]

MkFile(id, base, ext, type, size, lastModified, bytes, doc, numPages, body) ==
  [id |-> id, base |-> base, ext |-> ext, type |-> type, size |-> size,
   lastModified |-> lastModified, bytes |-> bytes, doc |-> doc,
   numPages |-> numPages, body |-> body]

\* One slide entry of a package document.  signature, label, type: "" when
\* the property is missing; addedAt: 0 when missing; bytesIsString is
\* typeof slide.bytes === "string".
MkSlide(signature, label, type, addedAt, bytesIsString, bytes) ==
  [signature |-> signature, label |-> label, type |-> type, addedAt |-> addedAt,
   bytesIsString |-> bytesIsString, bytes |-> bytes]

imgA == MkFile("imgA", "a", ".png", "image/png", 1, 5, <<255>>, 0, 0, NoBody)
imgB == MkFile("imgB", "", "", "image/gif", 2, 6, <<0, 16>>, 0, 0, NoBody)
\* Two different documents with the same name, type, size and modified time.
docP == MkFile("docP", "d", ".pdf", "application/pdf", 9, 3, <<>>, 1, 3, NoBody)
docQ == MkFile("docQ", "d", ".pdf", "application/pdf", 9, 3, <<>>, 2, 2, NoBody)
note == MkFile("note", "n", ".txt", "text/plain", 4, 4, <<>>, 0, 0, NoBody)

SlideA == MkSlide("a.png::image/png::1::5", "", "", 0, TRUE, Btoa(<<255>>))
SlideBad == MkSlide("bad", "broken", "image/png", 1, TRUE, <<19, 99>>)
SlideNoBytes == MkSlide("nob", "nobytes", "image/png", 1, FALSE, <<>>)
SlideAnon == MkSlide("", "x", "image/png", 1, TRUE, Btoa(<<7, 200>>))
SlideP == MkSlide("p1", "one", "image/gif", 2, TRUE, Btoa(<<1, 2, 3>>))

\* version 2: fails the version gate.
pkgV2 == MkFile("pkgV2", "old", ".json", "application/json", 30, 1, <<>>, 0, 0,
  [json |-> TRUE, version |-> Num(2), delay |-> Num(900), isArray |-> TRUE,
   slides |-> <<SlideP>>])
\* not JSON at all.
pkgText == MkFile("pkgText", "t", ".slideshow", "", 3, 1, <<>>, 0, 0, NoBody)
\* version 1, slides is not an array.
pkgShape == MkFile("pkgShape", "s", ".json", "", 8, 1, <<>>, 0, 0,
  [json |-> TRUE, version |-> Num(1), delay |-> Num(900), isArray |-> FALSE,
   slides |-> <<>>])
\* a valid package: two decodable slides, two corrupt ones, delay out of range.
pkgMix == MkFile("pkgMix", "m", ".lss", "", 40, 2, <<>>, 0, 0,
  [json |-> TRUE, version |-> Str("1"), delay |-> Num(5000), isArray |-> TRUE,
   slides |-> <<SlideP, SlideBad, SlideAnon, SlideNoBytes>>])
\* a valid package whose only slide has the signature of imgA; delay is a string.
pkgDup == MkFile("pkgDup", "u", "", "application/json", 20, 2, <<>>, 0, 0,
  [json |-> TRUE, version |-> Num(1), delay |-> Str("900"), isArray |-> TRUE,
   slides |-> <<SlideA>>])
\* a valid package without slides whose delay is 12.5.
pkgHalf == MkFile("pkgHalf", "h", ".json", "application/json", 10, 3, <<>>, 0, 0,
  [json |-> TRUE, version |-> Num(1), delay |-> NumHalf(12), isArray |-> TRUE,
   slides |-> <<>>])
saved == MkFile("saved", "lightning-slideshow", ".json", "application/json",
                50, 9, <<>>, 0, 0, NoBody)

FileName(file) == file.base \o file.ext

fileSignature(file) ==
  FileName(file) \o "::" \o file.type \o "::" \o ToString(file.size)
                 \o "::" \o ToString(file.lastModified)

pageSignature(file, pageNumber) ==
  fileSignature(file) \o "::page" \o ToString(pageNumber)

pageLabel(file, pageNumber) ==
  (IF FileName(file) = "" THEN "PDF" ELSE FileName(file))
    \o " - page " \o ToString(pageNumber)

\* The PNG that canvasToBlob yields for a page: it depends on the document
\* and on the page.
pageBlob(file, pageNumber) ==
  [bytes |-> <<file.doc, pageNumber>>, type |-> "image/png"]

isPackageCandidate(file) ==
  \/ file.type = "application/json"
  \/ file.ext \in {".json", ".lss", ".slideshow"}

isImage(file) == file.type \in {"image/png", "image/gif"}
isPdf(file) == file.type = "application/pdf"

\* a || b on strings and on numbers.
OrStr(a, b) == IF a = "" THEN b ELSE a
OrNum(a, b) == IF a = 0 THEN b ELSE a

importSignature(n) == "import-" \o ToString(n)

(***************************************************************************)
(* IndexedDB returns getAll() in key order; the keys are the signatures.   *)
(* KeyOrder lists the signatures of the model in the order of their code   *)
(* units.                                                                  *)
(***************************************************************************)
KeyOrder ==
  <<"::image/gif::2::6", "a.png::image/png::1::5",
    "d.pdf::application/pdf::9::3::page1", "d.pdf::application/pdf::9::3::page2",
    "d.pdf::application/pdf::9::3::page3", "d.pdf::application/pdf::9::3::page4",
    "e", "import-1", "import-2", "import-3", "import-4", "import-5",
    "p1", "w", "z">>

KeyRank(sig) == CHOOSE i \in 1..Len(KeyOrder) : KeyOrder[i] = sig

\* No sort: the records stay in key order.
BeforeInKeyOrder(a, b) == KeyRank(a.signature) < KeyRank(b.signature)

\* (request.result || []).sort((a, b) => (a.addedAt || 0) - (b.addedAt || 0)):
\* a stable sort of the key-ordered result.
Before(a, b) ==
  \/ a.addedAt < b.addedAt
  \/ a.addedAt = b.addedAt /\ KeyRank(a.signature) < KeyRank(b.signature)

RECURSIVE SortByAddedAt(_)
SortByAddedAt(records) ==
  IF records = {} THEN <<>>
  ELSE LET first == CHOOSE r \in records : \A o \in records \ {r} : Before(r, o)
       IN  <<first>> \o SortByAddedAt(records \ {first})

\* store.put(record): an upsert by the key path "signature".
PutRecord(records, record) ==
  {r \in records : r.signature # record.signature} \cup {record}

MkRecord(signature, label, addedAt, bytes, type) ==
  [signature |-> signature, label |-> label, addedAt |-> addedAt,
   bytes |-> bytes, type |-> type]

\* Records written by an earlier session.
OldStore ==
  { MkRecord("a.png::image/png::1::5", "a.png", 2, <<255, 0, 9>>, "image/png"),
    MkRecord("z", "late", 1, <<7, 200>>, "image/gif"),
    MkRecord("e", "Image", 2, <<>>, "application/octet-stream"),
    MkRecord("w", "d.pdf - page 1", 3, <<1, 2, 3, 250>>, "image/png") }

(***************************************************************************)
(* State                                                                   *)
(***************************************************************************)
VARIABLES
  imageEntries,     \* the gallery: a sequence of [signature, label, blob]
  imageSignatures,  \* the Set of known signatures
  store,            \* the records of the object store "slides"
  txq,              \* the transactions created and not yet finished, oldest first
  dbState,          \* dbPromise: "opening", "open", "closed", "failed", "absent"
  delay,            \* delayRange.value
  storedDelay,      \* localStorage["lightning-slideshow-delay"], NaN when unusable
  now,              \* Date.now()
  uuid,             \* number of import signatures generated
  pdfSupported,     \* whether pdf.js loaded
  jobs,             \* the files of each addFiles invocation
  batch,            \* the addFiles invocations
  reset,            \* the resetGallery invocations
  restore,          \* the restorePersistedSlides invocation of startup
  export,           \* the buildExportPayload invocation
  exported,         \* the package document written by the last export
  budget,           \* environment events still allowed
  accepted,         \* signatures registered since the last reset or unload
  ingested,         \* file signatures whose unit finished since the last reset or unload
  snap,             \* the records read by the last export
  opens,            \* indexedDB.open requests made so far
  fraction,         \* whether the delay shown, and the one stored, is delay + 1/2
  show              \* the slideshow: its flags, its timers, the stage, the start button

vars == <<imageEntries, imageSignatures, store, txq, dbState, delay, storedDelay,
          now, uuid, pdfSupported, jobs, batch, reset, restore, export, exported,
          budget, accepted, ingested, snap, opens, fraction, show>>

gallery == <<imageEntries, imageSignatures, accepted>>

ZeroRes ==
  [added |-> 0, supported |-> 0, unsupported |-> 0, pdfUnsupported |-> 0,
   packageSlidesAdded |-> 0, packagesProcessed |-> 0, packageErrors |-> 0,
   packageSlidesTotal |-> 0]

NoResult == [added |-> 0, total |-> 0, error |-> FALSE, set |-> FALSE]
NoRec == MkRecord("", "", 0, <<>>, "")

\* What is remembered about the unit (file) an invocation is working on, to
\* state the properties: whether the file had been ingested before, whether
\* nothing else ran and the store worked while the unit ran, the gallery at
\* its start, the pages that failed, whether an exception escaped, whether a
\* reset or an unload emptied the gallery while the unit ran.
NoUnit ==
  [file |-> "", again |-> FALSE, quiet |-> FALSE, fresh |-> FALSE, e0 |-> 0,
   a0 |-> 0, known0 |-> {}, failed |-> {}, loaded |-> FALSE, puts |-> 0,
   fin |-> FALSE, escaped |-> FALSE, cut |-> FALSE]

IdleBatch ==
  [pc |-> "idle", idx |-> 0, sub |-> 0, total |-> 0, uadd |-> 0, res |-> ZeroRes,
   packageResult |-> NoResult, rec |-> NoRec, thrown |-> FALSE, u |-> NoUnit,
   crossed |-> FALSE, pushed |-> 0]

\* The slideshow at page load.  A timer handle (slideshowTimeout,
\* slideshowRaf) is "null", "live" while the callback it names is pending,
\* or "stale" once that callback has run.  timeouts and frames count the
\* pending callbacks whose handle was overwritten by a later one, requests
\* the startSlideshow calls waiting for stage.requestFullscreen(), clicks the
\* clicks on the start button.  stage is the signature of the entry shown.
IdleShow ==
  [isRunning |-> FALSE, currentIndex |-> 0, slideshowTimeout |-> "null",
   slideshowRaf |-> "null", timeouts |-> 0, frames |-> 0, requests |-> 0,
   requestFullscreen |-> TRUE, fullscreenElement |-> FALSE,
   startDisabled |-> TRUE, stage |-> "", clicks |-> 0]

\* No clamp: Number(value) || 0 as it is.
ClampNone(value) == IF value = NaN THEN 0 ELSE value

\* Math.min(2000, Math.max(0, Number(value) || 0))
Clamp(value) == Min(MaxDelay, Max(MinDelay, IF value = NaN THEN 0 ELSE value))

\* getStoredDelay() of a raw value
getStoredDelay(raw) == IF raw # NaN /\ raw >= 0 /\ raw <= 2000 THEN raw ELSE NaN

\* restoreDelaySetting()
restoreDelaySetting(raw) ==
  IF getStoredDelay(raw) = NaN THEN Clamp(DEFAULT_DELAY) ELSE Clamp(getStoredDelay(raw))

(***************************************************************************)
(* Scenarios: the files of the two invocations, the records left by an     *)
(* earlier session, the capabilities of the browser, and the events of the *)
(* environment that may happen.                                            *)
(***************************************************************************)
Scenario(j1, j2, old, pdf, idb, raw, resets, exports, ticks, unload, vchange, faults) ==
  [jobs |-> <<j1, j2>>, store |-> old, pdf |-> pdf, idb |-> idb, raw |-> raw,
   budget |-> [resets |-> resets, exports |-> exports, ticks |-> ticks,
               unload |-> unload, vchange |-> vchange, faults |-> faults]]

\* Two invocations race on the same image, with a reset, the clock and a
\* version change.
ScImages ==
  Scenario(<<imgA, imgB>>, <<imgA>>, {}, TRUE, TRUE, NaN,
           MaxResets, 0, MaxTicks, FALSE, TRUE, FALSE)
\* The same image twice, with unload, the clock and store failures.
ScUnload ==
  Scenario(<<imgA, imgA>>, <<imgB>>, {}, TRUE, TRUE, NaN,
           0, 0, MaxTicks, TRUE, FALSE, TRUE)
\* Files are dropped while the startup restore is still reading the store.
ScRestore ==
  Scenario(<<imgA, note>>, <<imgB>>, OldStore, FALSE, TRUE, 300,
           MaxResets, 0, 0, FALSE, TRUE, TRUE)
\* Two documents with the same file signature, one after the other.
ScDocs ==
  Scenario(<<docP, docQ>>, <<>>, {}, TRUE, TRUE, NaN,
           MaxResets, 0, 0, FALSE, FALSE, FALSE)
\* The same document in two invocations at once.
ScDocRace ==
  Scenario(<<docQ>>, <<docQ>>, {}, TRUE, TRUE, NaN,
           0, 0, 0, FALSE, FALSE, TRUE)
\* No pdf.js and no IndexedDB.
ScBare ==
  Scenario(<<docQ, imgA>>, <<docP>>, {}, FALSE, FALSE, 5000,
           0, 0, 0, TRUE, FALSE, FALSE)
\* A package imported twice, with a reset and a version change.
ScPackages ==
  Scenario(<<pkgMix, pkgMix>>, <<>>, {}, TRUE, TRUE, NaN,
           MaxResets, 0, MaxTicks, FALSE, TRUE, FALSE)
\* A package next to an image it contains.
ScPackageRace ==
  Scenario(<<imgA, pkgDup>>, <<pkgDup>>, {}, TRUE, TRUE, NaN,
           0, 0, 0, FALSE, TRUE, TRUE)
\* Packages that fail the gate.
ScGate ==
  Scenario(<<pkgV2, pkgText>>, <<pkgShape, pkgMix>>, {}, TRUE, TRUE, 300,
           MaxResets, 0, 0, FALSE, FALSE, TRUE)
\* Export, reset and import of the saved package over an old store.
ScSaved ==
  Scenario(<<saved>>, <<>>, OldStore, TRUE, TRUE, 300,
           MaxResets, MaxExports, 0, FALSE, FALSE, TRUE)

\* A document next to an image.
ScDocImage ==
  Scenario(<<docQ>>, <<imgB>>, {}, TRUE, TRUE, NaN,
           0, 0, 0, FALSE, FALSE, FALSE)

\* A package whose delay is not a whole number.
ScDelay ==
  Scenario(<<pkgHalf>>, <<>>, {}, TRUE, TRUE, 300,
           0, 0, 0, FALSE, FALSE, FALSE)

Scenarios ==
  {ScImages, ScUnload, ScRestore, ScDocs, ScDocRace, ScBare, ScPackages,
   ScPackageRace, ScGate, ScSaved, ScDocImage, ScDelay}

Init ==
  \E sc \in Scenarios :
    /\ imageEntries = <<>>
    /\ imageSignatures = {}
    /\ store = sc.store
    /\ txq = <<>>
    /\ dbState = IF sc.idb THEN "opening" ELSE "absent"
    /\ delay = restoreDelaySetting(sc.raw)
    /\ storedDelay = sc.raw
    /\ now = 4
    /\ uuid = 0
    /\ pdfSupported = sc.pdf
    /\ jobs = sc.jobs
    /\ batch = [s \in Slots |-> IdleBatch]
    /\ reset = [r \in 1..MaxResets |-> "idle"]
    /\ restore = [pc |-> "start", list |-> <<>>, idx |-> 0, quiet |-> TRUE,
                  old |-> sc.store]
    /\ export = "idle"
    /\ exported = NoBody
    /\ budget = sc.budget
    /\ accepted = {}
    /\ ingested = {}
    /\ snap = {}
    /\ opens = 0
    /\ fraction = [live |-> FALSE, stored |-> FALSE]
    /\ show = IdleShow

(***************************************************************************)
(* Helpers of the actions                                                  *)
(***************************************************************************)
File(b) == jobs[b][batch[b].idx]

\* The parsed text of a package file.
PackageBody(file) == IF file.id = "saved" THEN exported ELSE file.body

Running(s) == batch[s].pc \notin {"idle", "done", "threw"}

\* Nothing but invocation b is in flight.
Quiescent(b) ==
  /\ \A s \in Slots \ {b} : ~Running(s)
  /\ \A r \in 1..MaxResets : reset[r] \in {"idle", "done"}
  /\ restore.pc = "done"
  /\ export \in {"idle", "done"}
  /\ txq = <<>>

Calm(s) == [batch[s] EXCEPT !.u.quiet = FALSE]

(***************************************************************************)
(* Run to completion.  A callback runs up to its next await of something   *)
(* that takes a task to settle: file.text(), blob.arrayBuffer(), the       *)
(* document loader, a page render, an IndexedDB request, or openDatabase() *)
(* while the open request is pending.  An await of anything else (a settled dbPromise, an async   *)
(* function that returned without waiting) resumes in a microtask, before  *)
(* any other event is handled.  The positions below are those between two  *)
(* such blocks of one callback: while an invocation stands at one of them, *)
(* no event is delivered; invocations resumed by the same event may        *)
(* continue in either order.                                               *)
(***************************************************************************)
BatchResuming(s) ==
  \/ batch[s].pc \in {"files", "slides", "page"}
  \/ batch[s].pc = "saveOpen" /\ dbState \in {"absent", "failed"}

RestoreResuming ==
  \/ restore.pc \in {"start", "loop"}
  \/ restore.pc = "open" /\ dbState # "opening"

ResetResuming(r) == reset[r] = "open" /\ dbState # "opening"

ExportResuming == export = "open" /\ dbState # "opening"

\* Every callback has reached an await that takes a task: the next event
\* can be delivered.
Settled ==
  /\ \A s \in Slots : ~BatchResuming(s)
  /\ ~RestoreResuming
  /\ \A r \in 1..MaxResets : ~ResetResuming(r)
  /\ ~ExportResuming

\* A step of invocation b, which becomes br; it is a foreign step for the
\* units of the other invocations and for the restore.
BatchStep(b, br) ==
  /\ BatchResuming(b) \/ Settled
  /\ batch' = [s \in Slots |-> IF s = b THEN br ELSE Calm(s)]
  /\ restore' = [restore EXCEPT !.quiet = FALSE]

\* A step of something else that the units in flight may notice.
Disturb ==
  /\ batch' = [s \in Slots |-> Calm(s)]
  /\ restore' = [restore EXCEPT !.quiet = FALSE]

\* A reset or an unload: the files ingested so far, and the units in flight,
\* no longer count as ingested; the invocations that were started before it
\* are marked.
Forget ==
  /\ ingested' = {}
  /\ batch' = [s \in Slots |->
                [Calm(s) EXCEPT !.u.cut = TRUE,
                                !.crossed = batch[s].pc # "idle"]]
  /\ restore' = [restore EXCEPT !.quiet = FALSE]

UnitStart(b, file) ==
  [file |-> file.id, again |-> fileSignature(file) \in ingested,
   quiet |-> Quiescent(b) /\ dbState = "open",
   fresh |-> imageEntries = <<>> /\ imageSignatures = {} /\ store = {},
   e0 |-> Len(imageEntries), a0 |-> batch[b].res.added,
   known0 |-> imageSignatures, failed |-> {}, loaded |-> FALSE, puts |-> 0,
   fin |-> FALSE, escaped |-> FALSE, cut |-> FALSE]

\* The file loop of addFiles goes on with the next file.
NextFile(br) ==
  [br EXCEPT !.pc = "files", !.idx = @ + 1, !.sub = 0, !.total = 0, !.uadd = 0,
             !.rec = NoRec, !.thrown = FALSE, !.u.fin = TRUE]

\* A file counts as ingested once its unit has finished without an
\* exception, no reset or unload having crossed it: an image, a package that
\* passed the gate, a document that loaded and whose pages all rendered.
IngestedAfter(br, file) ==
  IF /\ br.u.fin /\ ~br.u.cut /\ ~br.u.escaped
     /\ IF isPackageCandidate(file)
          THEN br.packageResult.set /\ ~br.packageResult.error
        ELSE IF isImage(file) THEN TRUE
        ELSE br.u.loaded /\ br.u.failed = {}
    THEN ingested \cup {fileSignature(file)}
    ELSE ingested

\* A check that never finds the signature.
KnownNever(signature) == FALSE

\* registerEntry, line 156: the check.
Known(signature) == signature \in imageSignatures

\* A push that forgets to add the signature to the set.
PushEntryOnly(signature, label, blob) ==
  /\ imageEntries' = Append(imageEntries,
                            [signature |-> signature, label |-> label, blob |-> blob])
  /\ imageSignatures' = imageSignatures
  /\ accepted' = accepted \cup {signature}

\* An entry put in front of the others (unshift for push).
PushEntryFirst(signature, label, blob) ==
  /\ imageEntries' = <<[signature |-> signature, label |-> label, blob |-> blob]>>
                        \o imageEntries
  /\ imageSignatures' = imageSignatures \cup {signature}
  /\ accepted' = accepted \cup {signature}

\* registerEntry, lines 160-162: the entry is pushed and its signature added.
PushEntry(signature, label, blob) ==
  /\ imageEntries' = Append(imageEntries,
                            [signature |-> signature, label |-> label, blob |-> blob])
  /\ imageSignatures' = imageSignatures \cup {signature}
  /\ accepted' = accepted \cup {signature}

\* The clamp keeps the fraction of a value that lies inside the range.
ClampHalf(value) ==
  value.s = "half" /\ value.n >= MinDelay /\ value.n < MaxDelay

\* applyDelay(value, { persist }): the clamped value is written to both
\* inputs as it is, and to localStorage when persist is set.
applyDelay(value, persist) ==
  /\ delay' = Clamp(ToNumber(value))
  /\ storedDelay' = IF persist THEN Clamp(ToNumber(value)) ELSE storedDelay
  /\ fraction' = [live |-> ClampHalf(value),
                  stored |-> IF persist THEN ClampHalf(value) ELSE fraction.stored]

(***************************************************************************)
(* The slideshow                                                           *)
(***************************************************************************)
\* startBtn.disabled = imageEntries.length === 0
StartButton(sh, entries) == [sh EXCEPT !.startDisabled = (Len(entries) = 0)]

\* scheduleNextFrame: an animation frame for a delay of 0, a timeout
\* otherwise; the handle is overwritten, the callback it named stays pending.
scheduleNextFrame(sh) ==
  IF delay <= 0 /\ ~fraction.live
    THEN [sh EXCEPT !.slideshowRaf = "live",
                    !.frames = IF sh.slideshowRaf = "live" THEN @ + 1 ELSE @]
    ELSE [sh EXCEPT !.slideshowTimeout = "live",
                    !.timeouts = IF sh.slideshowTimeout = "live" THEN @ + 1 ELSE @]

\* clearTimers: the callbacks that the two handles name are cancelled.
clearTimers(sh) == [sh EXCEPT !.slideshowTimeout = "null", !.slideshowRaf = "null"]

stopSlideshow(sh, entries) ==
  IF ~sh.isRunning
    THEN sh
    ELSE clearTimers([StartButton(sh, entries) EXCEPT !.isRunning = FALSE, !.stage = ""])

\* showNextImage.  With currentIndex past the end, entry is undefined and
\* reading entry.url throws: nothing is shown and nothing is scheduled.
showNextImage(sh, entries) ==
  IF ~sh.isRunning THEN sh
  ELSE IF Len(entries) = 0 THEN stopSlideshow(sh, entries)
  ELSE IF sh.currentIndex >= Len(entries) THEN sh
  ELSE scheduleNextFrame([sh EXCEPT
         !.stage = entries[sh.currentIndex + 1].signature,
         !.currentIndex = (@ + 1) % Len(entries)])

\* restorePersistedSlides sets the start button as it returns.
RestoreShow(after, entries) ==
  IF after.pc = "done" THEN StartButton(show, entries) ELSE show

\* registerEntry returned true to invocation b (br is b after the save).
AfterRegistered(br, file) ==
  IF isPackageCandidate(file)
    THEN [br EXCEPT !.pc = "slides", !.sub = @ + 1, !.uadd = @ + 1, !.rec = NoRec]
  ELSE IF isImage(file)
    THEN NextFile([br EXCEPT !.res.added = @ + 1])
  ELSE [br EXCEPT !.pc = "page", !.sub = @ + 1, !.uadd = @ + 1, !.rec = NoRec]

\* saveSlideRecord rejected, and with it registerEntry: importSavedPackage
\* catches and reports an error; addImageFile rejects and so does addFiles;
\* addPdfFile runs its finally block and rejects.
AfterThrow(br, file) ==
  IF isPackageCandidate(file)
    THEN NextFile([br EXCEPT
           !.packageResult = [added |-> 0, total |-> 0, error |-> TRUE, set |-> TRUE],
           !.res.unsupported = @ + 1, !.res.packageErrors = @ + 1,
           !.u.escaped = TRUE])
  ELSE IF isImage(file)
    THEN [br EXCEPT !.pc = "threw", !.u.escaped = TRUE, !.u.fin = TRUE]
  ELSE [br EXCEPT !.pc = "cleanup", !.thrown = TRUE, !.u.escaped = TRUE]

Put(b, record) == [op |-> "put", owner |-> "batch", id |-> b, record |-> record]
Clear(r) == [op |-> "clear", owner |-> "reset", id |-> r, record |-> NoRec]
GetAll(owner) == [op |-> "getAll", owner |-> owner, id |-> 0, record |-> NoRec]

\* A variant that remembers the handle and not the promise: a call made while
\* the open request is pending makes a request of its own.
openDatabaseMemoHandle ==
  opens' = IF dbState = "opening" THEN opens + 1 ELSE opens

\* openDatabase: without IndexedDB it resolves to null; with dbPromise set it
\* returns dbPromise; else it calls indexedDB.open and sets dbPromise.
\* dbPromise is assigned by that call alone and never reset: it is null
\* exactly while no request has been made.
openDatabase ==
  opens' = IF dbState # "absent" /\ opens = 0 THEN opens + 1 ELSE opens

(***************************************************************************)
(* addFiles                                                                *)
(***************************************************************************)
\* A drop, a paste or a file selection calls addFiles(files).
StartBatch(b) ==
  /\ batch[b].pc = "idle"
  /\ \A i \in 1..Len(jobs[b]) : jobs[b][i].id = "saved" => export = "done"
  /\ BatchStep(b, IF jobs[b] = <<>>
                    THEN [IdleBatch EXCEPT !.pc = "done"]
                    ELSE [IdleBatch EXCEPT !.pc = "files", !.idx = 1])
  /\ UNCHANGED <<gallery, store, txq, dbState, delay, storedDelay, fraction, now, uuid,
                 pdfSupported, show, opens, jobs, reset, export, exported, budget, ingested, snap>>

\* The loop is over: addFiles returns its counts.
BatchEnd(b) ==
  /\ batch[b].pc = "files"
  /\ batch[b].idx > Len(jobs[b])
  /\ BatchStep(b, [batch[b] EXCEPT !.pc = "done"])
  /\ show' = IF Len(jobs[b]) = 0 THEN show
             ELSE IF batch[b].res.added > 0
               THEN IF show.isRunning THEN show ELSE StartButton(show, imageEntries)
             ELSE IF Len(imageEntries) = 0
               THEN [show EXCEPT !.startDisabled = TRUE]
             ELSE show
  /\ UNCHANGED <<gallery, store, txq, dbState, delay, storedDelay, fraction, now, uuid,
                 pdfSupported, opens, jobs, reset, export, exported, budget, ingested, snap>>

AtFile(b) == batch[b].pc = "files" /\ batch[b].idx <= Len(jobs[b])

\* A package candidate: importSavedPackage awaits file.text().
StartPackage(b) ==
  /\ AtFile(b)
  /\ isPackageCandidate(File(b))
  /\ BatchStep(b, [batch[b] EXCEPT !.pc = "text", !.u = UnitStart(b, File(b))])
  /\ UNCHANGED <<gallery, store, txq, dbState, delay, storedDelay, fraction, now, uuid,
                 pdfSupported, show, opens, jobs, reset, export, exported, budget, ingested, snap>>

\* An image whose signature is known: addImageFile returns 0.
ImageKnown(b) ==
  /\ AtFile(b)
  /\ ~isPackageCandidate(File(b)) /\ isImage(File(b))
  /\ Known(fileSignature(File(b)))
  /\ LET br == NextFile([batch[b] EXCEPT !.res.supported = @ + 1,
                                         !.u = UnitStart(b, File(b))])
     IN  /\ BatchStep(b, br)
         /\ ingested' = IngestedAfter(br, File(b))
  /\ UNCHANGED <<gallery, store, txq, dbState, delay, storedDelay, fraction, now, uuid,
                 pdfSupported, show, opens, jobs, reset, export, exported, budget, snap>>

\* An image whose signature is new: registerEntry pushes it and calls
\* saveSlideRecord, which awaits openDatabase().
ImageRegister(b) ==
  /\ AtFile(b)
  /\ ~isPackageCandidate(File(b)) /\ isImage(File(b))
  /\ ~Known(fileSignature(File(b)))
  /\ LET file == File(b)
         blob == [bytes |-> file.bytes, type |-> file.type]
         label == OrStr(FileName(file), "Image")
     IN  /\ PushEntry(fileSignature(file), label, blob)
         /\ BatchStep(b, [batch[b] EXCEPT
              !.res.supported = @ + 1, !.pc = "saveOpen", !.pushed = @ + 1,
              !.rec = MkRecord(fileSignature(file), label, now, blob.bytes,
                               OrStr(blob.type, "application/octet-stream")),
              !.u = UnitStart(b, file)])
  /\ openDatabase
  /\ UNCHANGED <<store, txq, dbState, delay, storedDelay, fraction, now, uuid,
                 pdfSupported, show, jobs, reset, export, exported, budget, ingested, snap>>

\* A PDF without pdf.js counted with the files of no supported kind.
PdfCountedUnsupported(b) ==
  /\ AtFile(b)
  /\ ~isPackageCandidate(File(b)) /\ ~isImage(File(b)) /\ isPdf(File(b))
  /\ ~pdfSupported
  /\ LET br == NextFile([batch[b] EXCEPT !.res.unsupported = @ + 1,
                                         !.u = UnitStart(b, File(b))])
     IN  /\ BatchStep(b, br)
         /\ ingested' = IngestedAfter(br, File(b))
  /\ UNCHANGED <<gallery, store, txq, dbState, delay, storedDelay, fraction, now, uuid,
                 pdfSupported, show, opens, jobs, reset, export, exported, budget, snap>>

\* A PDF without pdf.js: counted, not attempted.
PdfUnsupported(b) ==
  /\ AtFile(b)
  /\ ~isPackageCandidate(File(b)) /\ ~isImage(File(b)) /\ isPdf(File(b))
  /\ ~pdfSupported
  /\ LET br == NextFile([batch[b] EXCEPT !.res.supported = @ + 1,
                                         !.res.pdfUnsupported = @ + 1,
                                         !.u = UnitStart(b, File(b))])
     IN  /\ BatchStep(b, br)
         /\ ingested' = IngestedAfter(br, File(b))
  /\ UNCHANGED <<gallery, store, txq, dbState, delay, storedDelay, fraction, now, uuid,
                 pdfSupported, show, opens, jobs, reset, export, exported, budget, snap>>

\* A PDF: addPdfFile awaits file.arrayBuffer() and the loading task.
StartPdf(b) ==
  /\ AtFile(b)
  /\ ~isPackageCandidate(File(b)) /\ ~isImage(File(b)) /\ isPdf(File(b))
  /\ pdfSupported
  /\ BatchStep(b, [batch[b] EXCEPT !.res.supported = @ + 1, !.pc = "pdfload",
                                   !.u = UnitStart(b, File(b))])
  /\ UNCHANGED <<gallery, store, txq, dbState, delay, storedDelay, fraction, now, uuid,
                 pdfSupported, show, opens, jobs, reset, export, exported, budget, ingested, snap>>

\* Any other file is counted as unsupported.
Unsupported(b) ==
  /\ AtFile(b)
  /\ ~isPackageCandidate(File(b)) /\ ~isImage(File(b)) /\ ~isPdf(File(b))
  /\ LET br == NextFile([batch[b] EXCEPT !.res.unsupported = @ + 1,
                                         !.u = UnitStart(b, File(b))])
     IN  /\ BatchStep(b, br)
         /\ ingested' = IngestedAfter(br, File(b))
  /\ UNCHANGED <<gallery, store, txq, dbState, delay, storedDelay, fraction, now, uuid,
                 pdfSupported, show, opens, jobs, reset, export, exported, budget, snap>>

(***************************************************************************)
(* importSavedPackage                                                      *)
(***************************************************************************)
\* A gate that does not look at the version.
ValidPackageAnyVersion(body) == body.json /\ body.isArray

\* The gate of line 286 (JSON.parse throwing is json = FALSE).
ValidPackage(body) ==
  /\ body.json
  /\ ToNumber(body.version) = SAVE_PACKAGE_VERSION
  /\ body.isArray

\* file.text() resolved and the document fails the gate: the catch block
\* returns { added: 0, total: 0, error: true } and addFiles counts an error.
PackageRejected(b) ==
  /\ batch[b].pc = "text"
  /\ ~ValidPackage(PackageBody(File(b)))
  /\ LET br == NextFile([batch[b] EXCEPT
                 !.packageResult = [added |-> 0, total |-> 0, error |-> TRUE,
                                    set |-> TRUE],
                 !.res.unsupported = @ + 1, !.res.packageErrors = @ + 1])
     IN  /\ BatchStep(b, br)
         /\ ingested' = IngestedAfter(br, File(b))
  /\ UNCHANGED <<gallery, store, txq, dbState, delay, storedDelay, fraction, now, uuid,
                 pdfSupported, show, opens, jobs, reset, export, exported, budget, snap>>

\* The document passes the gate: its delay is applied when it is a number,
\* and the slide loop starts.
PackageAccepted(b) ==
  /\ batch[b].pc = "text"
  /\ ValidPackage(PackageBody(File(b)))
  /\ LET body == PackageBody(File(b))
     IN  /\ IF body.delay.t = "num"
               THEN applyDelay(body.delay, TRUE)
               ELSE UNCHANGED <<delay, storedDelay, fraction>>
         /\ BatchStep(b, [batch[b] EXCEPT !.pc = "slides", !.sub = 1, !.uadd = 0,
                                          !.total = Len(body.slides)])
  /\ UNCHANGED <<gallery, store, txq, dbState, now, uuid,
                 pdfSupported, show, opens, jobs, reset, export, exported, budget, ingested, snap>>

Slide(b) == PackageBody(File(b)).slides[batch[b].sub]

AtSlide(b) == batch[b].pc = "slides" /\ batch[b].sub <= batch[b].total

\* A slide test that forgets that atob can throw.
DecodableIfString(slide) == slide.bytesIsString

Decodable(slide) == slide.bytesIsString /\ AtobOk(slide.bytes)

\* let signature = slide.signature || generateImportSignature()
SlideSignature(slide) == OrStr(slide.signature, importSignature(uuid + 1))

\* The loop is over: { added, total } is returned and addFiles adds it up.
PackageDone(b) ==
  /\ batch[b].pc = "slides"
  /\ batch[b].sub > batch[b].total
  /\ LET br == NextFile([batch[b] EXCEPT
                 !.packageResult = [added |-> batch[b].uadd, total |-> batch[b].total,
                                    error |-> FALSE, set |-> TRUE],
                 !.res.packagesProcessed = @ + 1,
                 !.res.supported = @ + batch[b].total,
                 !.res.packageSlidesTotal = @ + batch[b].total,
                 !.res.added = @ + batch[b].uadd,
                 !.res.packageSlidesAdded = @ + batch[b].uadd])
     IN  /\ BatchStep(b, br)
         /\ ingested' = IngestedAfter(br, File(b))
  /\ UNCHANGED <<gallery, store, txq, dbState, delay, storedDelay, fraction, now, uuid,
                 pdfSupported, show, opens, jobs, reset, export, exported, budget, snap>>

\* A slide without text bytes, or whose bytes atob cannot decode, is skipped.
SlideSkipped(b) ==
  /\ AtSlide(b)
  /\ ~Decodable(Slide(b))
  /\ BatchStep(b, [batch[b] EXCEPT !.sub = @ + 1])
  /\ UNCHANGED <<gallery, store, txq, dbState, delay, storedDelay, fraction, now, uuid,
                 pdfSupported, show, opens, jobs, reset, export, exported, budget, ingested, snap>>

\* A known slide counted as added all the same.
SlideKnownCounted(b) ==
  /\ AtSlide(b)
  /\ Decodable(Slide(b))
  /\ Known(SlideSignature(Slide(b)))
  /\ BatchStep(b, [batch[b] EXCEPT !.sub = @ + 1, !.uadd = @ + 1])
  /\ uuid' = IF Slide(b).signature = "" THEN uuid + 1 ELSE uuid
  /\ UNCHANGED <<gallery, store, txq, dbState, delay, storedDelay, fraction, now,
                 pdfSupported, show, opens, jobs, reset, export, exported, budget, ingested, snap>>

\* A decodable slide whose signature is known: registerEntry returns false.
SlideKnown(b) ==
  /\ AtSlide(b)
  /\ Decodable(Slide(b))
  /\ Known(SlideSignature(Slide(b)))
  /\ BatchStep(b, [batch[b] EXCEPT !.sub = @ + 1])
  /\ uuid' = IF Slide(b).signature = "" THEN uuid + 1 ELSE uuid
  /\ UNCHANGED <<gallery, store, txq, dbState, delay, storedDelay, fraction, now,
                 pdfSupported, show, opens, jobs, reset, export, exported, budget, ingested, snap>>

\* A decodable slide with a new signature is registered.
SlideRegister(b) ==
  /\ AtSlide(b)
  /\ Decodable(Slide(b))
  /\ ~Known(SlideSignature(Slide(b)))
  /\ LET slide == Slide(b)
         blob == [bytes |-> base64ToArrayBuffer(slide.bytes),
                  type |-> OrStr(slide.type, "application/octet-stream")]
         label == OrStr(slide.label, "Image")
         signature == SlideSignature(slide)
     IN  /\ PushEntry(signature, label, blob)
         /\ BatchStep(b, [batch[b] EXCEPT
              !.pc = "saveOpen", !.pushed = @ + 1,
              !.rec = MkRecord(signature, label, OrNum(slide.addedAt, now), blob.bytes,
                               OrStr(blob.type, "application/octet-stream"))])
  /\ uuid' = IF Slide(b).signature = "" THEN uuid + 1 ELSE uuid
  /\ openDatabase
  /\ UNCHANGED <<store, txq, dbState, delay, storedDelay, fraction, now,
                 pdfSupported, show, jobs, reset, export, exported, budget, ingested, snap>>

(***************************************************************************)
(* addPdfFile                                                              *)
(***************************************************************************)
\* The loading task settles.  A document that cannot be read rejects before
\* the try block; addFiles catches and goes on with the next file.
PdfLoaded(b) ==
  /\ batch[b].pc = "pdfload"
  /\ BatchStep(b, [batch[b] EXCEPT !.pc = "page", !.sub = 1, !.uadd = 0,
                                   !.total = File(b).numPages, !.u.loaded = TRUE])
  /\ UNCHANGED <<gallery, store, txq, dbState, delay, storedDelay, fraction, now, uuid,
                 pdfSupported, show, opens, jobs, reset, export, exported, budget, ingested, snap>>

PdfLoadFailed(b) ==
  /\ batch[b].pc = "pdfload"
  /\ budget.faults
  /\ LET br == NextFile([batch[b] EXCEPT !.u.escaped = TRUE])
     IN  /\ BatchStep(b, br)
         /\ ingested' = IngestedAfter(br, File(b))
  /\ UNCHANGED <<gallery, store, txq, dbState, delay, storedDelay, fraction, now, uuid,
                 pdfSupported, show, opens, jobs, reset, export, exported, budget, snap>>

AtPage(b) == batch[b].pc = "page" /\ batch[b].sub <= batch[b].total

\* All pages done: the finally block awaits cleanup() and destroy().
PagesDone(b) ==
  /\ batch[b].pc = "page"
  /\ batch[b].sub > batch[b].total
  /\ BatchStep(b, [batch[b] EXCEPT !.pc = "cleanup"])
  /\ UNCHANGED <<gallery, store, txq, dbState, delay, storedDelay, fraction, now, uuid,
                 pdfSupported, show, opens, jobs, reset, export, exported, budget, ingested, snap>>

\* Line 483: a page whose signature is known is not rendered.
PageKnown(b) ==
  /\ AtPage(b)
  /\ Known(pageSignature(File(b), batch[b].sub))
  /\ BatchStep(b, [batch[b] EXCEPT !.sub = @ + 1])
  /\ UNCHANGED <<gallery, store, txq, dbState, delay, storedDelay, fraction, now, uuid,
                 pdfSupported, show, opens, jobs, reset, export, exported, budget, ingested, snap>>

\* Otherwise getPage, render and canvasToBlob are awaited.
PageStart(b) ==
  /\ AtPage(b)
  /\ ~Known(pageSignature(File(b), batch[b].sub))
  /\ BatchStep(b, [batch[b] EXCEPT !.pc = "render"])
  /\ UNCHANGED <<gallery, store, txq, dbState, delay, storedDelay, fraction, now, uuid,
                 pdfSupported, show, opens, jobs, reset, export, exported, budget, ingested, snap>>

\* A page failure that is not caught: the finally block runs and addPdfFile
\* rejects.
PageFailedThrows(b) ==
  /\ batch[b].pc = "render"
  /\ BatchStep(b, [batch[b] EXCEPT !.pc = "cleanup", !.thrown = TRUE,
                                   !.u.escaped = TRUE,
                                   !.u.failed = @ \cup {batch[b].sub}])
  /\ UNCHANGED <<gallery, store, txq, dbState, delay, storedDelay, fraction, now, uuid,
                 pdfSupported, show, opens, jobs, reset, export, exported, budget, ingested, snap>>

\* getPage, render or canvasToBlob failed: the page is skipped.
PageFailed(b) ==
  /\ batch[b].pc = "render"
  /\ BatchStep(b, [batch[b] EXCEPT !.pc = "page", !.sub = @ + 1,
                                   !.u.failed = @ \cup {batch[b].sub}])
  /\ UNCHANGED <<gallery, store, txq, dbState, delay, storedDelay, fraction, now, uuid,
                 pdfSupported, show, opens, jobs, reset, export, exported, budget, ingested, snap>>

\* The page image is there, but its signature was registered meanwhile.
PageLate(b) ==
  /\ batch[b].pc = "render"
  /\ Known(pageSignature(File(b), batch[b].sub))
  /\ BatchStep(b, [batch[b] EXCEPT !.pc = "page", !.sub = @ + 1])
  /\ UNCHANGED <<gallery, store, txq, dbState, delay, storedDelay, fraction, now, uuid,
                 pdfSupported, show, opens, jobs, reset, export, exported, budget, ingested, snap>>

\* The page image is registered.
PageRegister(b) ==
  /\ batch[b].pc = "render"
  /\ ~Known(pageSignature(File(b), batch[b].sub))
  /\ LET file == File(b)
         n == batch[b].sub
         blob == pageBlob(file, n)
     IN  /\ PushEntry(pageSignature(file, n), pageLabel(file, n), blob)
         /\ BatchStep(b, [batch[b] EXCEPT
              !.pc = "saveOpen", !.pushed = @ + 1,
              !.rec = MkRecord(pageSignature(file, n), pageLabel(file, n), now,
                               blob.bytes, OrStr(blob.type, "application/octet-stream"))])
  /\ openDatabase
  /\ UNCHANGED <<store, txq, dbState, delay, storedDelay, fraction, now, uuid,
                 pdfSupported, show, jobs, reset, export, exported, budget, ingested, snap>>

\* The finally block: cleanup() is done, destroy() is awaited.
PdfCleaned(b) ==
  /\ batch[b].pc = "cleanup"
  /\ BatchStep(b, [batch[b] EXCEPT !.pc = "destroy"])
  /\ UNCHANGED <<gallery, store, txq, dbState, delay, storedDelay, fraction, now, uuid,
                 pdfSupported, show, opens, jobs, reset, export, exported, budget, ingested, snap>>

\* cleanup() and destroy() are done: addPdfFile returns { added, total }, or
\* rejects with what was thrown in the loop, which addFiles catches.
PdfClosed(b) ==
  /\ batch[b].pc = "destroy"
  /\ LET br == NextFile(IF batch[b].thrown THEN batch[b]
                        ELSE [batch[b] EXCEPT !.res.added = @ + batch[b].uadd])
     IN  /\ BatchStep(b, br)
         /\ ingested' = IngestedAfter(br, File(b))
  /\ UNCHANGED <<gallery, store, txq, dbState, delay, storedDelay, fraction, now, uuid,
                 pdfSupported, show, opens, jobs, reset, export, exported, budget, snap>>

(***************************************************************************)
(* saveSlideRecord, called by registerEntry                                *)
(***************************************************************************)
Saving(b) == batch[b].pc = "saveOpen" /\ dbState # "opening"

\* openDatabase() resolved null: saveSlideRecord returns, nothing is stored.
SaveNoDb(b) ==
  /\ Saving(b)
  /\ dbState \in {"absent", "failed"}
  /\ LET br == AfterRegistered(batch[b], File(b))
     IN  /\ BatchStep(b, br)
         /\ ingested' = IngestedAfter(br, File(b))
  /\ UNCHANGED <<gallery, store, txq, dbState, delay, storedDelay, fraction, now, uuid,
                 pdfSupported, show, opens, jobs, reset, export, exported, budget, snap>>

\* There is a handle, and blob.arrayBuffer() of line 77 rejects: a warning is
\* logged, nothing is stored, and registerEntry returns all the same.
SaveUnreadable(b) ==
  /\ Saving(b)
  /\ dbState \in {"open", "closed"}
  /\ budget.faults
  /\ LET br == AfterRegistered(batch[b], File(b))
     IN  /\ BatchStep(b, [br EXCEPT !.u.quiet = FALSE])
         /\ ingested' = IngestedAfter(br, File(b))
  /\ UNCHANGED <<gallery, store, txq, dbState, delay, storedDelay, fraction, now, uuid,
                 pdfSupported, show, opens, jobs, reset, export, exported, budget, snap>>

\* blob.arrayBuffer() resolved and the handle is open: lines 91-100 create a
\* readwrite transaction and put the record.
SavePut(b) ==
  /\ Saving(b)
  /\ dbState = "open"
  /\ txq' = Append(txq, Put(b, batch[b].rec))
  /\ BatchStep(b, [batch[b] EXCEPT !.pc = "saveTx", !.u.puts = @ + 1])
  /\ UNCHANGED <<gallery, store, dbState, delay, storedDelay, fraction, now, uuid,
                 pdfSupported, show, opens, jobs, reset, export, exported, budget, ingested, snap>>

\* blob.arrayBuffer() resolved and the handle was closed by a version
\* change: db.transaction() throws inside
\* the promise executor of line 91, outside any try block, and the promise
\* of saveSlideRecord rejects.
SaveThrows(b) ==
  /\ Saving(b)
  /\ dbState = "closed"
  /\ LET br == AfterThrow(batch[b], File(b))
     IN  /\ BatchStep(b, br)
         /\ ingested' = IngestedAfter(br, File(b))
  /\ UNCHANGED <<gallery, store, txq, dbState, delay, storedDelay, fraction, now, uuid,
                 pdfSupported, show, opens, jobs, reset, export, exported, budget, snap>>

(***************************************************************************)
(* The store: transactions on "slides" finish in the order of creation.    *)
(***************************************************************************)
Oldest == txq[1]

\* tx.oncomplete of a put: the record is stored and registerEntry returns.
PutComplete ==
  /\ Settled
  /\ txq # <<>> /\ Oldest.op = "put"
  /\ store' = PutRecord(store, Oldest.record)
  /\ txq' = Tail(txq)
  /\ LET b == Oldest.id
         br == AfterRegistered(batch[b], File(b))
     IN  /\ batch' = [batch EXCEPT ![b] = br]
         /\ ingested' = IngestedAfter(br, File(b))
  /\ UNCHANGED <<gallery, dbState, delay, storedDelay, fraction, now, uuid, pdfSupported, show, opens,
                 jobs, reset, restore, export, exported, budget, snap>>

\* tx.onerror of a put: nothing is stored, a warning is logged, and
\* registerEntry returns all the same.
PutError ==
  /\ Settled
  /\ txq # <<>> /\ Oldest.op = "put"
  /\ budget.faults
  /\ txq' = Tail(txq)
  /\ LET b == Oldest.id
         br == AfterRegistered(batch[b], File(b))
     IN  /\ batch' = [s \in Slots |-> IF s = b THEN [br EXCEPT !.u.quiet = FALSE]
                                      ELSE Calm(s)]
         /\ ingested' = IngestedAfter(br, File(b))
  /\ restore' = [restore EXCEPT !.quiet = FALSE]
  /\ UNCHANGED <<gallery, store, dbState, delay, storedDelay, fraction, now, uuid, pdfSupported, show, opens,
                 jobs, reset, export, exported, budget, snap>>

\* The transaction of a put aborts when it is committed (quota, disk): the
\* request had succeeded, so no error event reaches tx.onerror, and the abort
\* event has no handler in saveSlideRecord.  Nothing is stored and the
\* promise of line 91 stays pending.
PutAbort ==
  /\ Settled
  /\ txq # <<>> /\ Oldest.op = "put"
  /\ budget.faults
  /\ txq' = Tail(txq)
  /\ batch' = [s \in Slots |-> IF s = Oldest.id
                                  THEN [Calm(s) EXCEPT !.pc = "pending"]
                                  ELSE Calm(s)]
  /\ restore' = [restore EXCEPT !.quiet = FALSE]
  /\ UNCHANGED <<gallery, store, dbState, delay, storedDelay, fraction, now, uuid, pdfSupported, show, opens,
                 jobs, reset, export, exported, budget, ingested, snap>>

(***************************************************************************)
(* restorePersistedSlides, called once when the script is loaded           *)
(***************************************************************************)
\* The end of the script: restorePersistedSlides() is called and runs up to
\* the await of openDatabase() in getPersistedSlides.
Startup ==
  /\ restore.pc = "start"
  /\ restore' = [restore EXCEPT !.pc = "open"]
  /\ openDatabase
  /\ UNCHANGED <<gallery, store, txq, dbState, delay, storedDelay, fraction, now, uuid,
                 pdfSupported, show, jobs, batch, reset, export, exported, budget,
                 ingested, snap>>

\* getPersistedSlides: no handle, or a closed one (the exception is caught):
\* the result is empty.
RestoreNoDb ==
  /\ restore.pc = "open"
  /\ dbState \in {"absent", "failed", "closed"}
  /\ restore' = [restore EXCEPT !.pc = "done"]
  /\ batch' = [s \in Slots |-> Calm(s)]
  /\ UNCHANGED <<gallery, store, txq, dbState, delay, storedDelay, fraction, now, uuid,
                 pdfSupported, opens, jobs, reset, export, exported, budget, ingested, snap>>
  /\ show' = RestoreShow(restore', imageEntries')

RestoreRead ==
  /\ restore.pc = "open"
  /\ dbState = "open"
  /\ txq' = Append(txq, GetAll("restore"))
  /\ restore' = [restore EXCEPT !.pc = "tx"]
  /\ batch' = [s \in Slots |-> Calm(s)]
  /\ UNCHANGED <<gallery, store, dbState, delay, storedDelay, fraction, now, uuid,
                 pdfSupported, show, opens, jobs, reset, export, exported, budget, ingested, snap>>

\* request.onsuccess of getAll(): the records, sorted by addedAt.
getPersistedSlides == SortByAddedAt(store)

RestoreGot ==
  /\ Settled
  /\ txq # <<>> /\ Oldest.op = "getAll" /\ Oldest.owner = "restore"
  /\ txq' = Tail(txq)
  /\ restore' = [restore EXCEPT
       !.pc = IF store = {} THEN "done" ELSE "loop",
       !.list = getPersistedSlides, !.idx = 1]
  /\ batch' = [s \in Slots |-> Calm(s)]
  /\ UNCHANGED <<gallery, store, dbState, delay, storedDelay, fraction, now, uuid,
                 pdfSupported, opens, jobs, reset, export, exported, budget, ingested, snap>>
  /\ show' = RestoreShow(restore', imageEntries')

\* request.onerror of getAll(): the result is empty.
RestoreReadError ==
  /\ Settled
  /\ txq # <<>> /\ Oldest.op = "getAll" /\ Oldest.owner = "restore"
  /\ budget.faults
  /\ txq' = Tail(txq)
  /\ restore' = [restore EXCEPT !.pc = "done", !.quiet = FALSE]
  /\ batch' = [s \in Slots |-> Calm(s)]
  /\ UNCHANGED <<gallery, store, dbState, delay, storedDelay, fraction, now, uuid,
                 pdfSupported, opens, jobs, reset, export, exported, budget, ingested, snap>>
  /\ show' = RestoreShow(restore', imageEntries')

RestoreAdvance ==
  [restore EXCEPT !.idx = @ + 1,
                  !.pc = IF restore.idx + 1 > Len(restore.list) THEN "done" ELSE "loop"]

RestoreSlide == restore.list[restore.idx]

\* One turn of the loop of line 622: registerEntry with persist: false.
RestoreRegister ==
  /\ restore.pc = "loop"
  /\ ~Known(RestoreSlide.signature)
  /\ PushEntry(RestoreSlide.signature, OrStr(RestoreSlide.label, "Image"),
               [bytes |-> RestoreSlide.bytes,
                type |-> OrStr(RestoreSlide.type, "application/octet-stream")])
  /\ restore' = RestoreAdvance
  /\ batch' = [s \in Slots |-> Calm(s)]
  /\ UNCHANGED <<store, txq, dbState, delay, storedDelay, fraction, now, uuid,
                 pdfSupported, opens, jobs, reset, export, exported, budget, ingested, snap>>
  /\ show' = RestoreShow(restore', imageEntries')

RestoreKnown ==
  /\ restore.pc = "loop"
  /\ Known(RestoreSlide.signature)
  /\ restore' = RestoreAdvance
  /\ batch' = [s \in Slots |-> Calm(s)]
  /\ UNCHANGED <<gallery, store, txq, dbState, delay, storedDelay, fraction, now, uuid,
                 pdfSupported, opens, jobs, reset, export, exported, budget, ingested, snap>>
  /\ show' = RestoreShow(restore', imageEntries')

(***************************************************************************)
(* buildExportPayload, called by handleSaveClick                           *)
(***************************************************************************)
ExportSlide(record) ==
  MkSlide(record.signature, record.label, record.type, record.addedAt, TRUE,
          arrayBufferToBase64(record.bytes))

buildExportPayload(records) ==
  [json |-> TRUE, version |-> Num(SAVE_PACKAGE_VERSION),
   delay |-> IF fraction.live THEN NumHalf(delay) ELSE Num(delay),
   isArray |-> TRUE,
   slides |-> [i \in 1..Len(records) |-> ExportSlide(records[i])]]

\* The Save button.  The saved package that addFiles is given is the file
\* of the last export: no export follows its drop.
ExportClick ==
  /\ Settled
  /\ export \in {"idle", "done"}
  /\ budget.exports > 0
  /\ \A s \in Slots : \A i \in 1..Len(jobs[s]) :
       jobs[s][i].id = "saved" => batch[s].pc = "idle"
  /\ budget' = [budget EXCEPT !.exports = @ - 1]
  /\ export' = "open"
  /\ batch' = [s \in Slots |-> Calm(s)]
  /\ openDatabase
  /\ UNCHANGED <<gallery, store, txq, dbState, delay, storedDelay, fraction, now, uuid,
                 pdfSupported, show, jobs, reset, restore, exported, ingested, snap>>

\* getPersistedSlides found no usable handle: the package has no slides.
ExportNoDb ==
  /\ export = "open"
  /\ dbState \in {"absent", "failed", "closed"}
  /\ export' = "done"
  /\ exported' = buildExportPayload(<<>>)
  /\ snap' = {}
  /\ batch' = [s \in Slots |-> Calm(s)]
  /\ UNCHANGED <<gallery, store, txq, dbState, delay, storedDelay, fraction, now, uuid,
                 pdfSupported, show, opens, jobs, reset, restore, budget, ingested>>

ExportRead ==
  /\ export = "open"
  /\ dbState = "open"
  /\ txq' = Append(txq, GetAll("export"))
  /\ export' = "tx"
  /\ batch' = [s \in Slots |-> Calm(s)]
  /\ UNCHANGED <<gallery, store, dbState, delay, storedDelay, fraction, now, uuid,
                 pdfSupported, show, opens, jobs, reset, restore, exported, budget, ingested, snap>>

ExportGot ==
  /\ Settled
  /\ txq # <<>> /\ Oldest.op = "getAll" /\ Oldest.owner = "export"
  /\ txq' = Tail(txq)
  /\ export' = "done"
  /\ exported' = buildExportPayload(getPersistedSlides)
  /\ snap' = store
  /\ batch' = [s \in Slots |-> Calm(s)]
  /\ UNCHANGED <<gallery, store, dbState, delay, storedDelay, fraction, now, uuid,
                 pdfSupported, show, opens, jobs, reset, restore, budget, ingested>>

ExportReadError ==
  /\ Settled
  /\ txq # <<>> /\ Oldest.op = "getAll" /\ Oldest.owner = "export"
  /\ budget.faults
  /\ txq' = Tail(txq)
  /\ export' = "done"
  /\ exported' = buildExportPayload(<<>>)
  /\ snap' = {}
  /\ batch' = [s \in Slots |-> Calm(s)]
  /\ UNCHANGED <<gallery, store, dbState, delay, storedDelay, fraction, now, uuid,
                 pdfSupported, show, opens, jobs, reset, restore, budget, ingested>>

(***************************************************************************)
(* resetGallery                                                            *)
(***************************************************************************)
\* A reset that empties the entries and keeps the signature set.
ClearEntriesOnly ==
  /\ imageEntries' = <<>>
  /\ imageSignatures' = imageSignatures

\* Lines 752-759: the gallery is emptied at once; then clearPersistedSlides
\* awaits openDatabase().
ClearGallery ==
  /\ imageEntries' = <<>>
  /\ imageSignatures' = {}

ResetClick(r) ==
  /\ Settled
  /\ reset[r] = "idle"
  /\ r <= budget.resets
  /\ \A q \in 1..(r - 1) : reset[q] # "idle"
  /\ ClearGallery
  /\ accepted' = {}
  /\ reset' = [reset EXCEPT ![r] = "open"]
  /\ Forget
  /\ openDatabase
  /\ show' = [clearTimers(stopSlideshow(show, imageEntries)) EXCEPT
                !.currentIndex = 0, !.startDisabled = TRUE]
  /\ UNCHANGED <<store, txq, dbState, delay, storedDelay, fraction, now, uuid,
                 pdfSupported, jobs, export, exported, budget, snap>>

\* No usable handle (none, or a closed one whose exception is caught): the
\* store is left alone, and applyDelay(DEFAULT_DELAY) ends the reset.
ResetNoDb(r) ==
  /\ reset[r] = "open"
  /\ dbState \in {"absent", "failed", "closed"}
  /\ applyDelay(Num(DEFAULT_DELAY), TRUE)
  /\ reset' = [reset EXCEPT ![r] = "done"]
  /\ Disturb
  /\ UNCHANGED <<gallery, store, txq, dbState, now, uuid,
                 pdfSupported, show, opens, jobs, export, exported, budget, ingested, snap>>

ResetClear(r) ==
  /\ reset[r] = "open"
  /\ dbState = "open"
  /\ txq' = Append(txq, Clear(r))
  /\ reset' = [reset EXCEPT ![r] = "tx"]
  /\ Disturb
  /\ UNCHANGED <<gallery, store, dbState, delay, storedDelay, fraction, now, uuid,
                 pdfSupported, show, opens, jobs, export, exported, budget, ingested, snap>>

\* request.onsuccess of clear().
ClearComplete ==
  /\ Settled
  /\ txq # <<>> /\ Oldest.op = "clear"
  /\ store' = {}
  /\ txq' = Tail(txq)
  /\ applyDelay(Num(DEFAULT_DELAY), TRUE)
  /\ reset' = [reset EXCEPT ![Oldest.id] = "done"]
  /\ Disturb
  /\ UNCHANGED <<gallery, dbState, now, uuid,
                 pdfSupported, show, opens, jobs, export, exported, budget, ingested, snap>>

\* request.onerror of clear().
ClearError ==
  /\ Settled
  /\ txq # <<>> /\ Oldest.op = "clear"
  /\ budget.faults
  /\ txq' = Tail(txq)
  /\ applyDelay(Num(DEFAULT_DELAY), TRUE)
  /\ reset' = [reset EXCEPT ![Oldest.id] = "done"]
  /\ Disturb
  /\ UNCHANGED <<gallery, store, dbState, now, uuid,
                 pdfSupported, show, opens, jobs, export, exported, budget, ingested, snap>>

(***************************************************************************)
(* The beforeunload handler and the environment                            *)
(***************************************************************************)
Unload ==
  /\ Settled
  /\ budget.unload
  /\ budget' = [budget EXCEPT !.unload = FALSE]
  /\ ClearGallery
  /\ accepted' = {}
  /\ Forget
  /\ UNCHANGED <<store, txq, dbState, delay, storedDelay, fraction, now, uuid,
                 pdfSupported, show, opens, jobs, reset, export, exported, snap>>

\* request.onsuccess of indexedDB.open.
OpenSucceeds ==
  /\ Settled
  /\ opens > 0
  /\ dbState = "opening"
  /\ dbState' = "open"
  /\ UNCHANGED <<gallery, store, txq, delay, storedDelay, fraction, now, uuid, pdfSupported, show, opens,
                 jobs, batch, reset, restore, export, exported, budget, ingested, snap>>

\* request.onerror of indexedDB.open: the promise resolves null.
OpenFails ==
  /\ Settled
  /\ opens > 0
  /\ dbState = "opening"
  /\ budget.faults
  /\ dbState' = "failed"
  /\ Disturb
  /\ UNCHANGED <<gallery, store, txq, delay, storedDelay, fraction, now, uuid, pdfSupported, show, opens,
                 jobs, reset, export, exported, budget, ingested, snap>>

\* db.onversionchange: the handle is closed; dbPromise keeps it.
VersionChange ==
  /\ Settled
  /\ dbState = "open"
  /\ budget.vchange
  /\ dbState' = "closed"
  /\ Disturb
  /\ UNCHANGED <<gallery, store, txq, delay, storedDelay, fraction, now, uuid, pdfSupported, show, opens,
                 jobs, reset, export, exported, budget, ingested, snap>>

Tick ==
  /\ Settled
  /\ budget.ticks > 0
  /\ budget' = [budget EXCEPT !.ticks = @ - 1]
  /\ now' = now + 1
  /\ UNCHANGED <<gallery, store, txq, dbState, delay, storedDelay, fraction, uuid, pdfSupported, show, opens,
                 jobs, batch, reset, restore, export, exported, ingested, snap>>

(***************************************************************************)
(* The slideshow: the start button, Escape, the fullscreen request, the    *)
(* timers and the delay control                                            *)
(***************************************************************************)
MaxStarts == 2

\* A click on the start button: startSlideshow up to its await of
\* stage.requestFullscreen(), or through showNextImage() when there is
\* nothing to wait for.
StartClick ==
  /\ Settled
  /\ ~show.startDisabled
  /\ show.clicks < MaxStarts
  /\ LET sh == [show EXCEPT !.clicks = @ + 1]
         on == [sh EXCEPT !.isRunning = TRUE, !.currentIndex = 0,
                          !.startDisabled = TRUE]
     IN  show' = IF sh.isRunning \/ Len(imageEntries) = 0 THEN sh
                 ELSE IF on.requestFullscreen /\ ~on.fullscreenElement
                   THEN [on EXCEPT !.requests = @ + 1]
                 ELSE showNextImage(on, imageEntries)
  /\ UNCHANGED <<gallery, store, txq, dbState, delay, storedDelay, fraction, now, uuid,
                 pdfSupported, opens, jobs, batch, reset, restore, export, exported,
                 budget, ingested, snap>>

\* stage.requestFullscreen() settles, fulfilled or rejected: startSlideshow
\* resumes and calls showNextImage().
FullscreenSettled ==
  /\ Settled
  /\ show.requests > 0
  /\ \E granted \in BOOLEAN :
       show' = showNextImage([show EXCEPT
                 !.requests = @ - 1,
                 !.fullscreenElement = @ \/ granted], imageEntries)
  /\ UNCHANGED <<gallery, store, txq, dbState, delay, storedDelay, fraction, now, uuid,
                 pdfSupported, opens, jobs, batch, reset, restore, export, exported,
                 budget, ingested, snap>>

\* The document leaves fullscreen: document.exitFullscreen() of stopSlideshow
\* has taken effect, or the user left it.
FullscreenExit ==
  /\ Settled
  /\ show.fullscreenElement
  /\ show' = [show EXCEPT !.fullscreenElement = FALSE]
  /\ UNCHANGED <<gallery, store, txq, dbState, delay, storedDelay, fraction, now, uuid,
                 pdfSupported, opens, jobs, batch, reset, restore, export, exported,
                 budget, ingested, snap>>

\* keydown with Escape: stopSlideshow.
Escape ==
  /\ Settled
  /\ show.isRunning
  /\ show' = stopSlideshow(show, imageEntries)
  /\ UNCHANGED <<gallery, store, txq, dbState, delay, storedDelay, fraction, now, uuid,
                 pdfSupported, opens, jobs, batch, reset, restore, export, exported,
                 budget, ingested, snap>>

\* A pending timeout runs showNextImage: the one slideshowTimeout names, or
\* one whose handle was overwritten.
TimeoutFires ==
  /\ Settled
  /\ \/ /\ show.slideshowTimeout = "live"
        /\ show' = showNextImage([show EXCEPT !.slideshowTimeout = "stale"], imageEntries)
     \/ /\ show.timeouts > 0
        /\ show' = showNextImage([show EXCEPT !.timeouts = @ - 1], imageEntries)
  /\ UNCHANGED <<gallery, store, txq, dbState, delay, storedDelay, fraction, now, uuid,
                 pdfSupported, opens, jobs, batch, reset, restore, export, exported,
                 budget, ingested, snap>>

\* A pending animation frame callback runs showNextImage.
FrameFires ==
  /\ Settled
  /\ \/ /\ show.slideshowRaf = "live"
        /\ show' = showNextImage([show EXCEPT !.slideshowRaf = "stale"], imageEntries)
     \/ /\ show.frames > 0
        /\ show' = showNextImage([show EXCEPT !.frames = @ - 1], imageEntries)
  /\ UNCHANGED <<gallery, store, txq, dbState, delay, storedDelay, fraction, now, uuid,
                 pdfSupported, opens, jobs, batch, reset, restore, export, exported,
                 budget, ingested, snap>>

\* input on the delay slider, moved to one end or to the default:
\* applyDelay(Number(delayRange.value)).
syncDelayFromRange ==
  /\ Settled
  /\ \E value \in {MinDelay, DEFAULT_DELAY} \ {delay} : applyDelay(Num(value), TRUE)
  /\ UNCHANGED <<gallery, store, txq, dbState, now, uuid,
                 pdfSupported, show, opens, jobs, batch, reset, restore, export, exported,
                 budget, ingested, snap>>

Next ==
  \/ \E b \in Slots :
       \/ StartBatch(b) \/ BatchEnd(b) \/ StartPackage(b) \/ ImageKnown(b)
       \/ ImageRegister(b) \/ PdfUnsupported(b) \/ StartPdf(b) \/ Unsupported(b)
       \/ PackageRejected(b) \/ PackageAccepted(b) \/ PackageDone(b)
       \/ SlideSkipped(b) \/ SlideKnown(b) \/ SlideRegister(b)
       \/ PdfLoaded(b) \/ PdfLoadFailed(b) \/ PagesDone(b) \/ PageKnown(b)
       \/ PageStart(b) \/ PageFailed(b) \/ PageLate(b) \/ PageRegister(b)
       \/ PdfCleaned(b) \/ PdfClosed(b) \/ SaveNoDb(b) \/ SaveUnreadable(b) \/ SavePut(b)
       \/ SaveThrows(b)
  \/ PutComplete \/ PutError \/ PutAbort
  \/ Startup \/ RestoreNoDb \/ RestoreRead \/ RestoreGot \/ RestoreReadError
  \/ RestoreRegister \/ RestoreKnown
  \/ ExportClick \/ ExportNoDb \/ ExportRead \/ ExportGot \/ ExportReadError
  \/ \E r \in 1..MaxResets :
       \/ ResetClick(r) \/ ResetNoDb(r) \/ ResetClear(r)
  \/ ClearComplete \/ ClearError
  \/ Unload \/ OpenSucceeds \/ OpenFails \/ VersionChange \/ Tick

Spec == Init /\ [][Next]_vars

\* The steps that need no user and no other tab: a callback that can resume
\* does, and a request made to the store, to the file or to pdf.js settles
\* one way or another.
Progress ==
  \/ \E b \in Slots :
       \/ BatchEnd(b) \/ StartPackage(b) \/ ImageKnown(b)
       \/ ImageRegister(b) \/ PdfUnsupported(b) \/ StartPdf(b) \/ Unsupported(b)
       \/ PackageRejected(b) \/ PackageAccepted(b) \/ PackageDone(b)
       \/ SlideSkipped(b) \/ SlideKnown(b) \/ SlideRegister(b)
       \/ PdfLoaded(b) \/ PdfLoadFailed(b) \/ PagesDone(b) \/ PageKnown(b)
       \/ PageStart(b) \/ PageFailed(b) \/ PageLate(b) \/ PageRegister(b)
       \/ PdfCleaned(b) \/ PdfClosed(b) \/ SaveNoDb(b) \/ SaveUnreadable(b) \/ SavePut(b)
       \/ SaveThrows(b)
  \/ PutComplete \/ PutError \/ PutAbort
  \/ Startup \/ RestoreNoDb \/ RestoreRead \/ RestoreGot \/ RestoreReadError
  \/ RestoreRegister \/ RestoreKnown
  \/ ExportNoDb \/ ExportRead \/ ExportGot \/ ExportReadError
  \/ \E r \in 1..MaxResets : ResetNoDb(r) \/ ResetClear(r)
  \/ ClearComplete \/ ClearError
  \/ OpenSucceeds \/ OpenFails

\* The event loop runs what can run and every request settles; drops,
\* clicks, the clock and other tabs are not obliged to do anything.
FairSpec == Spec /\ WF_vars(Progress)

\* The page with the slideshow in use: no IndexedDB, two drops of images, a
\* reset and an unload.
ScShow ==
  Scenario(<<imgA, imgB>>, <<imgB>>, {}, TRUE, FALSE, NaN,
           MaxResets, 0, 0, TRUE, FALSE, FALSE)

ShowInit ==
  /\ imageEntries = <<>>
  /\ imageSignatures = {}
  /\ store = ScShow.store
  /\ txq = <<>>
  /\ dbState = "absent"
  /\ delay = restoreDelaySetting(ScShow.raw)
  /\ storedDelay = ScShow.raw
  /\ now = 4
  /\ uuid = 0
  /\ pdfSupported = ScShow.pdf
  /\ jobs = ScShow.jobs
  /\ batch = [s \in Slots |-> IdleBatch]
  /\ reset = [r \in 1..MaxResets |-> "idle"]
  /\ restore = [pc |-> "start", list |-> <<>>, idx |-> 0, quiet |-> TRUE,
                old |-> ScShow.store]
  /\ export = "idle"
  /\ exported = NoBody
  /\ budget = ScShow.budget
  /\ accepted = {}
  /\ ingested = {}
  /\ snap = {}
  /\ opens = 0
  /\ fraction = [live |-> FALSE, stored |-> FALSE]
  /\ \E api, disabled \in BOOLEAN :
       show = [IdleShow EXCEPT !.requestFullscreen = api, !.startDisabled = disabled]

ShowNext ==
  \/ \E b \in Slots :
       \/ StartBatch(b) \/ BatchEnd(b) \/ ImageKnown(b) \/ ImageRegister(b)
       \/ SaveNoDb(b)
  \/ Startup \/ RestoreNoDb
  \/ \E r \in 1..MaxResets : ResetClick(r) \/ ResetNoDb(r)
  \/ Unload
  \/ StartClick \/ FullscreenSettled \/ FullscreenExit \/ Escape
  \/ TimeoutFires \/ FrameFires \/ syncDelayFromRange

ShowSpec == ShowInit /\ [][ShowNext]_vars

(***************************************************************************)
(* Properties                                                              *)
(***************************************************************************)
Signatures(entries) == {entries[i].signature : i \in 1..Len(entries)}

\* The entries pushed since the unit of invocation b started.
NewEntries(b) == SubSeq(imageEntries, batch[b].u.e0 + 1, Len(imageEntries))

\* The file of the unit that invocation b works on or has just finished.
UnitFile(b) ==
  CHOOSE file \in {jobs[b][i] : i \in 1..Len(jobs[b])} : file.id = batch[b].u.file

Finished(b) == batch[b].u.fin /\ batch[b].u.file # ""

Delta(b) == batch[b].res.added - batch[b].u.a0

\* A step of invocation b itself (a step of anything else leaves its
\* position alone).
OwnStep(b) ==
  \/ batch'[b].pc # batch[b].pc
  \/ batch'[b].idx # batch[b].idx
  \/ batch'[b].sub # batch[b].sub

\* C1: in every reachable state, under any interleaving of ingest batches,
\* restore, reset and unload, no two entries of the gallery have the same
\* signature.
C1_UniqueSignatures ==
  \A i, j \in 1..Len(imageEntries) :
    imageEntries[i].signature = imageEntries[j].signature => i = j

\* Both invocations were handed a.png, one of them while the other was still
\* saving it, and the gallery holds it.
C1_Witness ==
  /\ jobs = ScImages.jobs
  /\ batch[1].pc = "saveTx" /\ batch[1].idx = 1
  /\ batch[2].pc = "done"
  /\ fileSignature(imgA) \in Signatures(imageEntries)

\* C2 as stated: a file whose name, type, size and modified time were
\* ingested before (no reset or unload since) adds nothing, whatever its kind.
C2_Original ==
  \A b \in Slots : (Finished(b) /\ batch[b].u.again) => Delta(b) = 0

\* C2, amended: ingesting an image file whose name, type, size and modified
\* time were ingested before (no reset or unload since) returns 0 and leaves
\* the entries, the signatures, the store and its pending writes unchanged.
C2_ImageIdempotent ==
  [][\A b \in Slots :
       (/\ AtFile(b)
        /\ ~isPackageCandidate(File(b)) /\ isImage(File(b))
        /\ fileSignature(File(b)) \in ingested
        /\ OwnStep(b))
       => /\ batch'[b].res.added = batch[b].res.added
          /\ batch'[b].pc = "files" /\ batch'[b].idx = batch[b].idx + 1
          /\ UNCHANGED <<imageEntries, imageSignatures, store, txq>>]_vars

\* The second a.png of one invocation was handed in after the first was
\* stored, and added nothing.
C2_Witness ==
  /\ jobs = ScUnload.jobs
  /\ batch[1].pc = "done"
  /\ batch[1].u.again /\ batch[1].res.added = 1 /\ batch[1].res.supported = 2
  /\ Len(imageEntries) = 1 /\ Cardinality(store) = 1

\* C3: a page of a document is rejected as a duplicate only when the gallery
\* holds that page of that very document; a page of another document with
\* the same file signature never stands in for it.
C3_PagesDisambiguated ==
  \A b \in Slots :
    (/\ batch[b].pc \in {"page", "render"}
     /\ batch[b].sub <= batch[b].total
     /\ Known(pageSignature(File(b), batch[b].sub)))
    => \E i \in 1..Len(imageEntries) :
         /\ imageEntries[i].signature = pageSignature(File(b), batch[b].sub)
         /\ imageEntries[i].blob = pageBlob(File(b), batch[b].sub)

\* C4: export, reset, import.  When the saved package is imported into an
\* empty gallery and an empty store, with nothing else running and the store
\* working, the store afterwards holds exactly the records that the export
\* read: same signature, label, type, addedAt and bytes.
C4_RoundTrip ==
  \A b \in Slots :
    (/\ Finished(b) /\ batch[b].u.file = "saved"
     /\ batch[b].u.quiet /\ batch[b].u.fresh
     /\ snap # {})
    => store = snap

C4_Witness ==
  /\ \E b \in Slots :
       /\ Finished(b) /\ batch[b].u.file = "saved"
       /\ batch[b].u.quiet /\ batch[b].u.fresh
       /\ batch[b].packageResult.added = 4
  /\ reset[1] = "done"
  /\ snap = OldStore
  /\ store = snap

\* The document is not an object with an array of slides, or its version is
\* not the number 1.
BadDocumentStrict(body) ==
  \/ ~body.json
  \/ ~(body.version.t = "num" /\ body.version.n = 1)
  \/ ~body.isArray

\* The same, with the version converted by Number(): "1" counts as 1.
BadDocument(body) ==
  \/ ~body.json
  \/ ToNumber(body.version) # 1
  \/ ~body.isArray

Rejection == [added |-> 0, total |-> 0, error |-> TRUE, set |-> TRUE]

GateStep(b) == batch[b].pc = "text" /\ batch'[b].pc # "text"

Corrupt == {SlideBad, SlideNoBytes}

IsSound(slide) == slide \notin Corrupt

\* C6: a package of k sound slides and m corrupt ones, imported into an empty
\* gallery with nothing else running and the store working, is answered
\* with {added: k, total: k + m}, no error; the gallery and the store then
\* hold exactly the k sound slides, in package order.
C6_PartialCorruption ==
  \A b \in Slots :
    (/\ Finished(b) /\ isPackageCandidate(UnitFile(b))
     /\ ~BadDocument(PackageBody(UnitFile(b)))
     /\ batch[b].u.quiet /\ batch[b].u.fresh)
    => LET slides == PackageBody(UnitFile(b)).slides
           sound == SelectSeq(slides, IsSound)
       IN  /\ batch[b].packageResult =
                [added |-> Len(sound), total |-> Len(slides),
                 error |-> FALSE, set |-> TRUE]
           /\ Len(imageEntries) = Len(sound)
           /\ Cardinality(store) = Len(sound)
           /\ \A j \in 1..Len(sound) :
                /\ Btoa(imageEntries[j].blob.bytes) = sound[j].bytes
                /\ sound[j].signature # ""
                     => imageEntries[j].signature = sound[j].signature
                /\ \E record \in store :
                     /\ record.signature = imageEntries[j].signature
                     /\ record.bytes = imageEntries[j].blob.bytes
                     /\ record.label = imageEntries[j].label

\* The package of two sound and two corrupt slides was imported.
C6_Witness ==
  \E b \in Slots :
    /\ Finished(b) /\ batch[b].u.file = "pkgMix"
    /\ batch[b].u.quiet /\ batch[b].u.fresh
    /\ batch[b].packageResult.added = 2 /\ batch[b].packageResult.total = 4
    /\ Len(imageEntries) = 2 /\ Cardinality(store) = 2

\* C7: for a document that loads, with nothing else running and the store
\* working, the entries appended are exactly its pages that rendered and
\* were not in the gallery, in ascending page order; the count added is
\* their number; no exception leaves addPdfFile or addFiles.
C7_RenderIsolation ==
  \A b \in Slots :
    (/\ Finished(b) /\ isPdf(UnitFile(b)) /\ ~isPackageCandidate(UnitFile(b))
     /\ batch[b].u.loaded /\ batch[b].u.quiet)
    => LET file == UnitFile(b)
           Kept(n) == /\ n \notin batch[b].u.failed
                      /\ pageSignature(file, n) \notin batch[b].u.known0
           pages == SelectSeq([n \in 1..file.numPages |-> n], Kept)
           new == NewEntries(b)
       IN  /\ ~batch[b].u.escaped
           /\ batch[b].pc # "threw"
           /\ Len(new) = Len(pages)
           /\ \A j \in 1..Len(pages) :
                /\ new[j].signature = pageSignature(file, pages[j])
                /\ new[j].blob = pageBlob(file, pages[j])
           /\ Delta(b) = Len(pages)

\* Page 2 of the three pages of a document failed; pages 1 and 3 were added.
C7_Witness ==
  \E b \in Slots :
    /\ Finished(b) /\ batch[b].u.file = "docP"
    /\ batch[b].u.loaded /\ batch[b].u.quiet
    /\ batch[b].u.failed = {2}
    /\ Delta(b) = 2
    /\ Len(imageEntries) = 2

AddedAt(signature) ==
  (CHOOSE record \in restore.old : record.signature = signature).addedAt

\* C8: when the restore at startup has finished, with nothing else running
\* and the store working, the store holds exactly the records it held
\* before, no write is pending, and the entries are those records in
\* non-decreasing addedAt order.
C8_RestoreReadOnly ==
  (restore.pc = "done" /\ restore.quiet)
  => /\ store = restore.old
     /\ \A k \in 1..Len(txq) : txq[k].op # "put"
     /\ Len(imageEntries) = Cardinality(restore.old)
     /\ Signatures(imageEntries) = {record.signature : record \in restore.old}
     /\ \A i, j \in 1..Len(imageEntries) :
          i < j => AddedAt(imageEntries[i].signature)
                     <= AddedAt(imageEntries[j].signature)

\* Four records, whose key order is not their addedAt order, were restored.
C8_Witness ==
  /\ restore.pc = "done" /\ restore.quiet
  /\ restore.old = OldStore
  /\ Len(imageEntries) = 4
  /\ imageEntries[1].signature = "z"

\* C9: at the moment a reset completes with the store cleared, when the
\* store never fails, the startup restore had nothing to restore and no
\* addFiles was called after the reset was, the entries and the signature
\* set are empty too, even if an invocation of addFiles was in flight when
\* the reset was called.
C9_ResetClears ==
  [][\A r \in 1..MaxResets :
       (/\ reset[r] = "tx" /\ reset'[r] = "done" /\ store' = {}
        /\ ~budget.faults
        /\ restore.old = {}
        /\ \A s \in Slots : batch[s].pc = "idle" \/ batch[s].crossed)
       => (imageEntries' = <<>> /\ imageSignatures' = {})]_vars

\* C10: every signature of an entry is in the signature set, and every
\* member of the signature set was put there by registerEntry since the last
\* reset or unload.
C10_SignatureSet ==
  /\ Signatures(imageEntries) \subseteq imageSignatures
  /\ imageSignatures \subseteq accepted

\* After a reset, the gallery was filled again.
C10_Witness ==
  /\ reset[1] = "done"
  /\ imageSignatures # {}
  /\ Signatures(imageEntries) = imageSignatures

\* The store cannot be opened or cannot be used.
Unusable == dbState \in {"absent", "failed", "closed"}

\* saveSlideRecord of invocation b settles in this step.
SaveStep(b) == batch[b].pc = "saveOpen" /\ batch'[b].pc # "saveOpen"

\* C11: while the store cannot be opened or used (no IndexedDB, a failed
\* open, a closed handle), saveSlideRecord settles without rejecting and
\* stores nothing, the unit it belongs to stays registered and the batch
\* goes on to return its counts; getPersistedSlides gives the empty list and
\* clearPersistedSlides does nothing.
C11_UnavailabilityAbsorbed ==
  [][Unusable =>
       /\ \A b \in Slots :
            SaveStep(b) =>
              /\ ~batch'[b].u.escaped
              /\ batch'[b].pc # "threw"
              /\ batch'[b].packageResult.error = batch[b].packageResult.error
              /\ imageEntries' = imageEntries
              /\ store' = store /\ txq' = txq
       /\ (restore.pc = "open" /\ restore'.pc # "open") =>
            restore'.pc = "done" /\ restore'.list = <<>> /\ txq' = txq
       /\ (export = "open" /\ export' # "open") =>
            export' = "done" /\ exported'.slides = <<>> /\ txq' = txq
       /\ \A r \in 1..MaxResets :
            (reset[r] = "open" /\ reset'[r] # "open") =>
              reset'[r] = "done" /\ store' = store /\ txq' = txq]_vars

\* C12: indexedDB.open is called at most once in a session, and not at all
\* without IndexedDB, however many calls of openDatabase there are and
\* however they interleave; every caller that waits for the open waits for
\* that one request, so that all of them resume on the same handle or all on
\* none.
C12_SingleFlightOpen ==
  /\ opens <= 1
  /\ dbState = "absent" => opens = 0
  /\ dbState \in {"open", "failed", "closed"} => opens = 1
  /\ ( \/ restore.pc = "open"
       \/ export = "open"
       \/ \E r \in 1..MaxResets : reset[r] = "open"
       \/ \E b \in Slots : batch[b].pc = "saveOpen" ) =>
       opens = IF dbState = "absent" THEN 0 ELSE 1

\* Three callers wait for the one open request.
C12_Witness ==
  /\ dbState = "opening" /\ opens = 1
  /\ restore.pc = "open"
  /\ \A b \in Slots : batch[b].pc = "saveOpen"

\* The document an entry is a page of (0 for an entry that is no page).
PageDoc(entry) ==
  IF \E file \in {docP, docQ} : \E n \in 1..file.numPages :
       entry.signature = pageSignature(file, n) /\ entry.blob = pageBlob(file, n)
    THEN entry.blob.bytes[1]
    ELSE 0

\* Invocation b registers a slide in this step.
RegisterStep(b) == batch[b].pc # "saveOpen" /\ batch'[b].pc = "saveOpen"

\* The signature of what invocation b stands at: the image, the slide of the
\* package, the page of the document.
UnitSignature(b) ==
  IF isPackageCandidate(File(b)) THEN SlideSignature(Slide(b))
  ELSE IF isImage(File(b)) THEN fileSignature(File(b))
  ELSE pageSignature(File(b), batch[b].sub)

\* C13 as stated: the pages of a document are contiguous in entries, the
\* pages of two documents are never interleaved there.
C13_Original ==
  \A i \in 1..Len(imageEntries) : \A k \in i..Len(imageEntries) :
    \A j \in i..k :
      (PageDoc(imageEntries[i]) # 0 /\ PageDoc(imageEntries[i]) = PageDoc(imageEntries[k]))
        => PageDoc(imageEntries[j]) = PageDoc(imageEntries[i])

\* C13: one invocation of addFiles goes through its files in input order and
\* through the pages or slides of a file in ascending order, never back; each
\* registration appends, at the end of entries, the slide of the position the
\* invocation stands at.  So the slides one invocation registers appear in
\* entries in input order, the pages of a document ascending and before
\* anything of the next file of that invocation.
C13_BatchOrder ==
  [][\A b \in Slots :
       /\ batch'[b].idx >= batch[b].idx
       /\ batch'[b].idx = batch[b].idx => batch'[b].sub >= batch[b].sub
       /\ RegisterStep(b) =>
            /\ imageEntries' # <<>>
            /\ SubSeq(imageEntries', 1, Len(imageEntries') - 1) = imageEntries
            /\ imageEntries'[Len(imageEntries')].signature = UnitSignature(b)
            /\ batch'[b].idx = batch[b].idx /\ batch'[b].sub = batch[b].sub]_vars

\* The two pages of a document are registered in order, with the image of
\* another invocation between them.
C13_Witness ==
  /\ Len(imageEntries) = 3
  /\ imageEntries[1].signature = pageSignature(docQ, 1)
  /\ imageEntries[2].signature = fileSignature(imgB)
  /\ imageEntries[3].signature = pageSignature(docQ, 2)
  /\ \A b \in Slots : batch[b].pc = "done"

\* Invocation b stands at a document, pdf.js is missing, and b goes on to the
\* next file in this step.
NoPdfStep(b) ==
  /\ AtFile(b) /\ isPdf(File(b))
  /\ ~isPackageCandidate(File(b)) /\ ~isImage(File(b))
  /\ ~pdfSupported
  /\ batch'[b].idx = batch[b].idx + 1

\* C14 as stated: without pdf.js a document is counted under unsupported.
C14_Original ==
  [][\A b \in Slots :
       NoPdfStep(b) => batch'[b].res.unsupported = batch[b].res.unsupported + 1]_vars

\* C14: without pdf.js a document is never attempted: addPdfFile is not
\* entered, no page is registered, nothing is stored or queued for the
\* store, added stays as it is; the document is counted under supported and
\* under pdfUnsupported, and not under unsupported.
C14_CapabilityUnavailable ==
  [][\A b \in Slots :
       /\ ~pdfSupported =>
            batch'[b].pc \notin {"pdfload", "page", "render", "cleanup", "destroy"}
       /\ NoPdfStep(b) =>
            /\ UNCHANGED <<imageEntries, imageSignatures, store, txq>>
            /\ batch'[b].res = [batch[b].res EXCEPT !.supported = @ + 1,
                                                    !.pdfUnsupported = @ + 1]
            /\ batch'[b].pc = "files"]_vars

\* Without pdf.js, d.pdf and a.png were dropped: the image is added, the
\* document is counted under pdfUnsupported.
C14_Witness ==
  /\ ~pdfSupported
  /\ batch[1].pc = "done"
  /\ batch[1].res.pdfUnsupported = 1 /\ batch[1].res.supported = 2
  /\ batch[1].res.added = 1 /\ batch[1].res.unsupported = 0
  /\ Len(imageEntries) = 1

\* importSavedPackage of invocation b returns in this step.
ImportReturns(b) ==
  /\ batch[b].pc \in {"text", "slides", "saveOpen", "saveTx"}
  /\ isPackageCandidate(File(b))
  /\ batch'[b].pc = "files" /\ batch'[b].idx = batch[b].idx + 1

\* C15: importSavedPackage answers error: true only when the document fails
\* the gate (not JSON, wrong version, wrong shape), and then straight from
\* the gate, no slide of the package having been pushed or stored; a slide
\* that cannot be persisted does not set the flag.
C15_ErrorIsDocumentLevel ==
  [][\A b \in Slots :
       (ImportReturns(b) /\ batch'[b].packageResult.error) =>
         /\ BadDocument(PackageBody(File(b)))
         /\ batch[b].pc = "text"
         /\ batch[b].u.puts = 0 /\ batch[b].uadd = 0
         /\ UNCHANGED <<imageEntries, imageSignatures, store, txq>>]_vars

\* No operation is in flight.
NothingInFlight ==
  /\ \A b \in Slots : ~Running(b)
  /\ \A r \in 1..MaxResets : reset[r] \in {"idle", "done"}
  /\ restore.pc = "done"
  /\ export \in {"idle", "done"}
  /\ txq = <<>>

\* C16: when nothing is in flight, the store is usable and it holds the
\* records of exactly the entries of the gallery, getPersistedSlides returns
\* them in the order of the entries.
C16_InsertionIsPersistenceOrder ==
  (/\ NothingInFlight
   /\ dbState = "open"
   /\ Len(imageEntries) = Cardinality(store)
   /\ Signatures(imageEntries) = {record.signature : record \in store})
  => \A i \in 1..Len(imageEntries) :
       imageEntries[i].signature = getPersistedSlides[i].signature

\* C17: once a version change has closed the handle, no store operation
\* works on it: a put, a getAll or a clear made then queues no transaction
\* and ends as it does without a store (nothing stored, the empty list,
\* nothing cleared), and none of them throws: the invocation that called
\* saveSlideRecord goes on with its loop.
C17_ClosedHandleInvalidated ==
  [][dbState = "closed" =>
       /\ txq' = txq \/ txq' = Tail(txq)
       /\ \A b \in Slots :
            SaveStep(b) =>
              /\ batch'[b].pc \in {"files", "slides", "page"}
              /\ ~batch'[b].thrown
              /\ batch'[b].u.escaped = batch[b].u.escaped
              /\ batch'[b].res.packageErrors = batch[b].res.packageErrors
       /\ restore.pc = "open" => restore'.pc \in {"open", "done"}
       /\ export = "open" => export' \in {"open", "done"}
       /\ \A r \in 1..MaxResets : reset[r] = "open" => reset'[r] \in {"open", "done"}]_vars

\* C18: when what can run runs and every request settles, every addFiles
\* invocation that was started comes to an end: it returns its counts (or
\* rejects, which is the matter of C17), whatever the outcome of the open,
\* of the transactions and of the renders; none waits forever.
C18_IngestTerminates ==
  \A b \in Slots : (batch[b].pc # "idle") ~> (batch[b].pc \in {"done", "threw"})

\* The pdf.js document that addPdfFile of invocation b loaded is not yet
\* cleaned up and destroyed.
InSession(b) == batch[b].u.loaded /\ ~batch[b].u.fin

\* C19: every pdf.js document that addPdfFile has loaded is eventually
\* cleaned up and destroyed, however the page loop ends.
C19_SessionReleased ==
  \A b \in Slots : InSession(b) ~> ~InSession(b)

\* Every slide of the package is sound, signed, and was known when the
\* import of invocation b began; no reset or unload has emptied the
\* signature set since.
AllKnown(b) ==
  LET slides == PackageBody(File(b)).slides
  IN  /\ ~BadDocument(PackageBody(File(b)))
      /\ ~batch[b].u.cut
      /\ \A j \in 1..Len(slides) :
           /\ Decodable(slides[j])
           /\ slides[j].signature \in batch[b].u.known0

\* C20: the import of a valid package all of whose slides are known
\* returns {added: 0, total: number of slides} without error and has pushed
\* and stored nothing; addFiles counts it under packagesProcessed, adds the
\* total to supported and packageSlidesTotal, and leaves added,
\* packageErrors and unsupported as they were.
C20_PackageDedup ==
  [][\A b \in Slots :
       (ImportReturns(b) /\ AllKnown(b)) =>
         LET total == Len(PackageBody(File(b)).slides)
         IN  /\ batch'[b].packageResult =
                  [added |-> 0, total |-> total, error |-> FALSE, set |-> TRUE]
             /\ batch[b].uadd = 0 /\ batch[b].u.puts = 0
             /\ UNCHANGED <<imageEntries, imageSignatures, store, txq>>
             /\ batch'[b].res =
                  [batch[b].res EXCEPT !.packagesProcessed = @ + 1,
                                       !.supported = @ + total,
                                       !.packageSlidesTotal = @ + total]]_vars

\* a.png was added, then the package whose one slide is a.png was imported
\* by the same invocation: one entry, nothing added by the package.
C20_Witness ==
  /\ jobs = ScPackageRace.jobs
  /\ batch[1].pc = "done" /\ ~batch[1].u.cut
  /\ batch[1].packageResult = [added |-> 0, total |-> 1, error |-> FALSE, set |-> TRUE]
  /\ batch[1].res.added = 1 /\ batch[1].res.packagesProcessed = 1
  /\ batch[1].res.packageErrors = 0 /\ batch[1].res.unsupported = 0
  /\ Len(imageEntries) = 1

\* C21 as stated: the delay is a whole number of milliseconds within
\* [0, 2000] in every reachable state.
C21_Original ==
  delay \in MinDelay..MaxDelay /\ ~fraction.live

\* C21: the delay is a number within [0, 2000] in every reachable state,
\* whole or not; an import changes it only at the gate, only when the
\* document passes the gate and its delay is a number, and then to that
\* number clamped to the range, which is also what is stored.
C21_DelayInRange ==
  /\ [](/\ delay \in MinDelay..MaxDelay
        /\ fraction.live => delay < MaxDelay)
  /\ [][\A b \in Slots :
          (OwnStep(b) /\ batch[b].pc # "idle") =>
            LET body == PackageBody(File(b))
            IN  IF GateStep(b) /\ ~BadDocument(body) /\ body.delay.t = "num"
                  THEN /\ delay' = Min(MaxDelay, Max(MinDelay, body.delay.n))
                       /\ fraction'.live = (/\ body.delay.s = "half"
                                            /\ body.delay.n >= MinDelay
                                            /\ body.delay.n < MaxDelay)
                       /\ storedDelay' = delay'
                       /\ fraction'.stored = fraction'.live
                  ELSE UNCHANGED <<delay, storedDelay, fraction>>]_vars

\* The package whose delay is 5000 was imported: the delay is 2000.
C21_Witness ==
  /\ jobs = ScPackages.jobs
  /\ batch[1].pc = "slides" /\ batch[1].idx = 1
  /\ delay = MaxDelay /\ storedDelay = MaxDelay /\ ~fraction.live

\* registerEntry pushes in this step: for an invocation of addFiles, or for
\* the restore.
Registration ==
  \/ \E b \in Slots : RegisterStep(b)
  \/ restore.pc = "loop" /\ restore' # restore

\* A reset or the unload handler runs in this step.
Teardown ==
  \/ \E r \in 1..MaxResets : reset[r] = "idle" /\ reset'[r] = "open"
  \/ budget.unload /\ ~budget'.unload

\* The step leaves the gallery as it is, or appends one entry with a new
\* signature and adds that signature, or empties both.
AppendOnly ==
  \/ /\ UNCHANGED <<imageEntries, imageSignatures>>
     /\ ~Teardown
  \/ /\ Registration
     /\ imageEntries' # <<>>
     /\ SubSeq(imageEntries', 1, Len(imageEntries') - 1) = imageEntries
     /\ imageEntries'[Len(imageEntries')].signature \notin imageSignatures
     /\ imageSignatures' =
          imageSignatures \cup {imageEntries'[Len(imageEntries')].signature}
  \/ /\ Teardown
     /\ imageEntries' = <<>> /\ imageSignatures' = {}

\* C22: every step leaves entries and signatures alone, or is a
\* registration that appends one entry and adds its signature, or is a reset
\* or the unload, which empty both; a step of an export, a rejected
\* duplicate and an unsupported file change nothing, and an import that
\* returns error: true has pushed nothing.
C22_AppendOnly ==
  [][/\ AppendOnly
     /\ (export' # export) => UNCHANGED <<imageEntries, imageSignatures>>
     /\ \A b \in Slots :
          /\ (OwnStep(b) /\ ~RegisterStep(b)) =>
               UNCHANGED <<imageEntries, imageSignatures>>
          /\ (ImportReturns(b) /\ batch'[b].packageResult.error) =>
               /\ batch[b].uadd = 0
               /\ batch[b].rec.signature \notin Signatures(imageEntries)]_vars

\* The signatures that have a persisted record.
Persisted == {record.signature : record \in store}

\* C23: a unit whose signature has a persisted record is not accepted by
\* registerEntry, and no persisted record is replaced by another one with
\* its signature: its addedAt and label stay as they were stored.
C23_DedupCoversStore ==
  [][/\ \A b \in Slots : RegisterStep(b) => UnitSignature(b) \notin Persisted
     /\ \A old \in store : \A new \in store' :
          new.signature = old.signature => new = old]_vars

\* C24: whenever nothing is in flight and the store is open, the signatures
\* of the persisted records are those of the entries of the gallery.
C24_WriteThrough ==
  (NothingInFlight /\ dbState = "open" /\ ~budget.faults)
    => Persisted = Signatures(imageEntries)

\* C25: the added count that addFiles returns is the number of entries that
\* the invocation appended to the gallery.
C25_AddedIsAppended ==
  \A b \in Slots : batch[b].pc = "done" => batch[b].res.added = batch[b].pushed

\* The callbacks of the slideshow loop that are pending: timeouts and
\* animation frames, named by a handle or not.
PendingAdvances ==
  (IF show.slideshowTimeout = "live" THEN 1 ELSE 0)
    + (IF show.slideshowRaf = "live" THEN 1 ELSE 0) + show.timeouts + show.frames

\* C26: the slideshow loop has at most one pending advance, and none while
\* the slideshow is not running; a slide put on the stage is an entry of
\* the gallery, at an index below its length.
C26_SingleAdvance ==
  /\ [](/\ PendingAdvances <= 1
        /\ ~show.isRunning => PendingAdvances = 0)
  /\ [][(show'.stage # show.stage /\ show'.stage # "") =>
          \E i \in 0..(Len(imageEntries) - 1) :
            show'.stage = imageEntries[i + 1].signature]_vars

====
